---- MODULE Spec2Model ----
(***************************************************************************)
(* Onboard positioning pipeline: PositionFusion (fusion.py) over           *)
(* PositionEKF (ekf.py), DeadReckoning (dead_reckoning.py) and             *)
(* GeofenceChecker/CircleGeofence (geofence.py); the frame loop of         *)
(* main.py; RateLimiter (rate_limiter.py); UARTManager (uart_manager.py);  *)
(* TileCache (tile_cache.py).                                              *)
(*                                                                         *)
(* Number representation (the code uses IEEE doubles; TLC has integers):   *)
(*   lat, lon          integer multiples of 1e-4 degree                    *)
(*   vlat, vlon        1e-4 degree per second                              *)
(*   covariance        1e-9 deg^2 (pp), 1e-9 deg^2/s (pv), 1e-9 (deg/s)^2  *)
(*   time              seconds; the clamped time step 1e-3 is the          *)
(*                     fraction 1/1000, every time step is a fraction n/d  *)
(*   hdop              tenths (2.0 is 20, 3.0 is 30, 99.0 is 990)          *)
(*   velocity in m/s   decimetres per second                               *)
(*   distances         metres                                              *)
(*   innovation_gate   hundredths                                          *)
(* Every float operation that does not give an integer in these units is   *)
(* rounded to the nearest one (RDiv), as the doubles round to nearest.     *)
(*                                                                         *)
(* The 4x4 covariance of the code is block structured: it starts diagonal  *)
(* with equal lat/lon entries, and F, Q, H, R treat both axes alike, so    *)
(* the lat/vlat block always equals the lon/vlon block and the cross       *)
(* entries stay 0.  The model keeps the three entries pp, pv, vv of that   *)
(* block; S is then s*I with s = pp_pred + r.                              *)
(***************************************************************************)
EXTENDS Integers, Sequences, FiniteSets, TLC

VARIABLES
    ekf,        \* PositionEKF fields (_x, _P, _last_t, _initialized, _last_innovation_gate)
    dr,         \* DeadReckoning._state: <<>> for None, <<state>> otherwise
    fenceCfg,   \* PositionFusion._fence: <<>> for None, <<CircleGeofence>> otherwise
    fence,      \* GeofenceChecker counters
    out,        \* the FusionOutput returned by the last PositionFusion.update
    call,       \* the last call: operation, arguments, state before it, result
    session,    \* history since construction or the last reset
    clock,      \* the timestamp passed to the last call
    calls,      \* number of calls made
    loop,       \* main(): position in the frame loop, its locals and resources
    rl,         \* RateLimiter fields with its configuration and call history
    uart,       \* UARTManager fields with the position inside send
    cache,      \* TileCache fields with the history of the last get
    rec,        \* FlightRecorder fields, the recording file and the records passed
    msp,        \* the MSPGPSData handed to encode_set_raw_gps and what it returned
    adapt,      \* AdaptiveController: parameters, statistics and windows
    matcher,    \* _try_match_frame: the candidates of a frame and the position in its loop
    maps,       \* MapLoader: the pack on disk and the loaded index
    dash        \* StatusDashboard: its objects and the snapshot taken of it

vars == <<ekf, dr, fenceCfg, fence, out, call, session, clock, calls,
          loop, rl, uart, cache, rec, msp, adapt, matcher, maps, dash>>

\* The variables of the components a specification does not drive.
loopVars == <<loop>>
rateVars == <<rl>>
uartVars == <<uart>>
cacheVars == <<cache>>
auxVars == <<rec, msp, adapt, matcher, maps, dash>>
fusionVars == <<ekf, dr, fenceCfg, fence, out, call, session, clock, calls>>
coreVars == <<fusionVars, loopVars, rateVars, uartVars, cacheVars>>

(***************************************************************************)
(* Bounds of the model.                                                    *)
(***************************************************************************)
MaxCalls == 3

(***************************************************************************)
(* Arithmetic helpers.                                                     *)
(***************************************************************************)
\* a / b rounded to the nearest integer (b > 0).
RDiv(a, b) == (2 * a + b) \div (2 * b)

\* One step of the bitwise square root: r with bit b added when that still fits.
SqrtBit(n, r, b) == IF (r + b) * (r + b) <= n THEN r + b ELSE r

\* math.sqrt, rounded down to an integer (0 <= n < 2^30).
ISqrt(n) ==
    LET r14 == SqrtBit(n, 0, 16384)
        r13 == SqrtBit(n, r14, 8192)
        r12 == SqrtBit(n, r13, 4096)
        r11 == SqrtBit(n, r12, 2048)
        r10 == SqrtBit(n, r11, 1024)
        r9 == SqrtBit(n, r10, 512)
        r8 == SqrtBit(n, r9, 256)
        r7 == SqrtBit(n, r8, 128)
        r6 == SqrtBit(n, r7, 64)
        r5 == SqrtBit(n, r6, 32)
        r4 == SqrtBit(n, r5, 16)
        r3 == SqrtBit(n, r4, 8)
        r2 == SqrtBit(n, r3, 4)
        r1 == SqrtBit(n, r2, 2)
        r0 == SqrtBit(n, r1, 1)
    IN  r0

Max(a, b) == IF a >= b THEN a ELSE b

\* math.cos(math.radians(lat)) in thousandths.  Every latitude of the model
\* lies within 0.1 degree of the equator, where cos >= 0.9999985.
CosMilli(lat) == 1000

(***************************************************************************)
(* shared/tile_math.py                                                     *)
(***************************************************************************)
GeoPoint(lat, lon) == [lat |-> lat, lon |-> lon]

None == <<>>
Some(v) == <<v>>
Get(o) == o[1]

\* haversine_km, in metres.  R = 6371 km gives 11.12 m per 1e-4 degree; at the
\* model's latitudes and distances the great circle is the chord to < 1e-3.
haversine_m(a, b) ==
    LET dlat == b.lat - a.lat
        dlon == RDiv((b.lon - a.lon) * CosMilli(a.lat), 1000)
    IN  RDiv(ISqrt(100 * (dlat * dlat + dlon * dlon)) * 11120, 10000)

(***************************************************************************)
(* onboard/ekf.py                                                          *)
(***************************************************************************)
process_noise_pos == 1      \* 1e-9 deg^2/s
process_noise_vel == 100    \* 1e-7 (deg/s)^2/s
measurement_noise == 10     \* 1e-8 deg^2
gate_threshold == 9
max_dt == 5

\* PositionEKF.__init__
EKF_new ==
    [lat |-> 0, lon |-> 0, vlat |-> 0, vlon |-> 0,
     pp |-> 100000, pv |-> 0, vv |-> 100000,
     last_t |-> 0, initialized |-> FALSE, gate |-> 0]

\* PositionEKF.position
EKF_position(e) == GeoPoint(e.lat, e.lon)

\* PositionEKF.velocity_mps: (vn, ve) in dm/s.
EKF_velocity_mps(e) ==
    LET vn == RDiv(e.vlat * 11132, 100)
        ve == RDiv(RDiv(e.vlon * 11132, 100) * CosMilli(e.lat), 1000)
    IN  [vn |-> vn, ve |-> ve]

\* math.sqrt(vn * vn + ve * ve)
Norm(v) == ISqrt(v.vn * v.vn + v.ve * v.ve)

\* PositionEKF.speed_mps, in dm/s.
EKF_speed_mps(e) == Norm(EKF_velocity_mps(e))

\* Mutant of EKF_reset: the initialized flag is left as it was.
EKF_reset_keeps_initialized(e) ==
    [e EXCEPT !.lat = 0, !.lon = 0, !.vlat = 0, !.vlon = 0,
              !.pp = 100000, !.pv = 0, !.vv = 100000, !.last_t = 0]

\* PositionEKF.reset: _last_innovation_gate is not touched.
EKF_reset(e) ==
    [e EXCEPT !.lat = 0, !.lon = 0, !.vlat = 0, !.vlon = 0,
              !.pp = 100000, !.pv = 0, !.vv = 100000,
              !.initialized = FALSE, !.last_t = 0]

\* PositionEKF.predict: a read-only prediction.
EKF_predict(e, t) ==
    IF ~e.initialized THEN GeoPoint(0, 0)
    ELSE LET dt == t - e.last_t
         IN  IF dt <= 0 THEN EKF_position(e)
             ELSE GeoPoint(e.lat + e.vlat * dt, e.lon + e.vlon * dt)

\* Mutant of EKF_after_predict: the prediction is computed in _x itself.
EKF_after_predict_in_place(e, t) ==
    IF ~e.initialized \/ t - e.last_t <= 0 THEN e
    ELSE [e EXCEPT !.lat = e.lat + e.vlat * (t - e.last_t),
                   !.lon = e.lon + e.vlon * (t - e.last_t)]

\* The filter after PositionEKF.predict: x_pred is a copy of _x and nothing
\* is assigned to a field.
EKF_after_predict(e, t) == e

\* PositionEKF.update, the branch of an uninitialized filter.
EKF_initialize(e, z, hdop, t) ==
    [e EXCEPT !.lat = z.lat, !.lon = z.lon, !.vlat = 0, !.vlon = 0,
              !.pp = RDiv(measurement_noise * hdop, 10), !.pv = 0,
              !.vv = process_noise_vel * 10,
              !.last_t = t, !.initialized = TRUE, !.gate = 0]

\* Mutant of EKF_dt: a time step that is not positive is used as it is.
EKF_dt_unclamped(e, t) == [n |-> t - e.last_t, d |-> 1]

\* dt = t - _last_t, clamped to 1e-3 when not positive; as a fraction n/d.
EKF_dt(e, t) ==
    LET dt == t - e.last_t
    IN  IF dt <= 0 THEN [n |-> 1, d |-> 1000] ELSE [n |-> dt, d |-> 1]

\* x_pred = F @ x
EKF_x_pred(e, dt) ==
    [lat |-> e.lat + RDiv(e.vlat * dt.n, dt.d),
     lon |-> e.lon + RDiv(e.vlon * dt.n, dt.d),
     vlat |-> e.vlat, vlon |-> e.vlon]

\* P_pred = F @ P @ F.T + Q
EKF_P_pred(e, dt) ==
    [pp |-> e.pp + RDiv(2 * e.pv * dt.n, dt.d)
                 + RDiv(RDiv(e.vv * dt.n, dt.d) * dt.n, dt.d)
                 + RDiv(process_noise_pos * dt.n, dt.d),
     pv |-> e.pv + RDiv(e.vv * dt.n, dt.d),
     vv |-> e.vv + RDiv(process_noise_vel * dt.n, dt.d)]

\* S = H @ P_pred @ H.T + R, the diagonal entry; R = r * max(1.0, hdop).
EKF_S(P, hdop) == P.pp + RDiv(measurement_noise * Max(10, hdop), 10)

\* y.T @ S_inv @ y times s: the squared innovation, in 1e-8 deg^2.
EKF_y2(xp, z) ==
    (z.lat - xp.lat) * (z.lat - xp.lat) + (z.lon - xp.lon) * (z.lon - xp.lon)

\* mahal_sq > gate_threshold, with mahal_sq = 10 * y2 / s in the model's units.
EKF_gate_exceeded(y2, s) == 10 * y2 > gate_threshold * s

\* K = P_pred @ H.T @ S_inv, in thousandths: the position and velocity gains.
EKF_K(P, s) == [p |-> RDiv(P.pp * 1000, s), v |-> RDiv(P.pv * 1000, s)]

\* Mutant of EKF_reject: the outlier leaves state and covariance where they
\* were, only the timestamp moves.
EKF_reject_without_prediction(e, xp, Pp, t, g) ==
    [e EXCEPT !.last_t = t, !.gate = g]

\* The rejected measurement: x = x_pred, P = P_pred, _last_t = t.
EKF_reject(e, xp, Pp, t, g) ==
    [e EXCEPT !.lat = xp.lat, !.lon = xp.lon, !.vlat = xp.vlat, !.vlon = xp.vlon,
              !.pp = Pp.pp, !.pv = Pp.pv, !.vv = Pp.vv,
              !.last_t = t, !.gate = g]

\* The accepted measurement: x = x_pred + K @ y, P = (I - K @ H) @ P_pred.
EKF_correct(e, xp, Pp, K, z, t, g) ==
    LET ylat == z.lat - xp.lat
        ylon == z.lon - xp.lon
    IN  [e EXCEPT !.lat = xp.lat + RDiv(K.p * ylat, 1000),
                  !.lon = xp.lon + RDiv(K.p * ylon, 1000),
                  !.vlat = xp.vlat + RDiv(K.v * ylat, 1000),
                  !.vlon = xp.vlon + RDiv(K.v * ylon, 1000),
                  !.pp = Pp.pp - RDiv(K.p * Pp.pp, 1000),
                  !.pv = Pp.pv - RDiv(K.p * Pp.pv, 1000),
                  !.vv = Pp.vv - RDiv(K.v * Pp.pv, 1000),
                  !.last_t = t, !.gate = g]

\* mahal_sq as stored in _last_innovation_gate, in hundredths.
EKF_mahal_sq(y2, s) == (1000 * y2) \div s

\* The gate on the predicted state xp, Pp: reject or correct.
EKF_gate(e, z, hdop, t, xp, Pp) ==
    IF EKF_gate_exceeded(EKF_y2(xp, z), EKF_S(Pp, hdop))
    THEN [ekf |-> EKF_reject(e, xp, Pp, t,
                             EKF_mahal_sq(EKF_y2(xp, z), EKF_S(Pp, hdop))),
          accepted |-> FALSE, branch |-> "rejected"]
    ELSE [ekf |-> EKF_correct(e, xp, Pp, EKF_K(Pp, EKF_S(Pp, hdop)), z, t,
                              EKF_mahal_sq(EKF_y2(xp, z), EKF_S(Pp, hdop))),
          accepted |-> TRUE, branch |-> "corrected"]

\* PositionEKF.update after the reset check: predict, then gate.
EKF_gated(e, z, hdop, t) ==
    EKF_gate(e, z, hdop, t, EKF_x_pred(e, EKF_dt(e, t)), EKF_P_pred(e, EKF_dt(e, t)))

\* Mutant of EKF_gap_too_long: the threshold is one second too high.
EKF_gap_too_long_late(e, t) == t - e.last_t > max_dt + 1

\* dt > max_dt: "too long since last fix".
EKF_gap_too_long(e, t) == t - e.last_t > max_dt

\* PositionEKF.update
EKF_update(e, z, hdop, t) ==
    IF ~e.initialized
    THEN [ekf |-> EKF_initialize(e, z, hdop, t), accepted |-> TRUE, branch |-> "init"]
    ELSE IF EKF_gap_too_long(e, t)
    THEN [ekf |-> EKF_initialize(EKF_reset(e), z, hdop, t),
          accepted |-> TRUE, branch |-> "gap_reset"]
    ELSE EKF_gated(e, z, hdop, t)

(***************************************************************************)
(* onboard/dead_reckoning.py                                               *)
(***************************************************************************)
max_dead_reckoning_s == 10
hdop_growth_rate == 10      \* 1.0 per second, in tenths

\* DeadReckoning.update_reference
DR_update_reference(position, vn, ve, hdop, t) ==
    Some([last_fix |-> position, last_fix_time |-> t,
          velocity_north_mps |-> vn, velocity_east_mps |-> ve,
          max_extrapolation_s |-> max_dead_reckoning_s, base_hdop |-> hdop])

\* Mutant of DR_extrapolate_from: the window ends before max_extrapolation_s.
DR_extrapolate_from_open_window(st, dt) ==
    IF dt < 0 \/ dt >= st.max_extrapolation_s THEN None
    ELSE Some([pos |-> GeoPoint(
                   st.last_fix.lat + RDiv(st.velocity_north_mps * dt * 100, 11132),
                   st.last_fix.lon
                     + RDiv(st.velocity_east_mps * dt * 100,
                            RDiv(11132 * CosMilli(st.last_fix.lat), 1000))),
               hdop |-> st.base_hdop + hdop_growth_rate * dt])

\* DeadReckoning.extrapolate from the reference st over dt seconds.
DR_extrapolate_from(st, dt) ==
    IF dt < 0 \/ dt > st.max_extrapolation_s THEN None
    ELSE Some([pos |-> GeoPoint(
                   st.last_fix.lat + RDiv(st.velocity_north_mps * dt * 100, 11132),
                   st.last_fix.lon
                     + RDiv(st.velocity_east_mps * dt * 100,
                            RDiv(11132 * CosMilli(st.last_fix.lat), 1000))),
               hdop |-> st.base_hdop + hdop_growth_rate * dt])

\* DeadReckoning._state after extrapolate: the method assigns nothing.
DR_state_after_extrapolate(d, t) == d

\* DeadReckoning.extrapolate: None, or Some([pos, hdop]).
DR_extrapolate(d, t) ==
    IF d = None THEN None
    ELSE DR_extrapolate_from(Get(d), t - Get(d).last_fix_time)

(***************************************************************************)
(* onboard/geofence.py                                                     *)
(***************************************************************************)
\* CircleGeofence.contains; radius and margin in metres.
CircleGeofence_contains(f, point) ==
    haversine_m(f.center, point) <= f.radius_m + f.margin_m

\* GeofenceChecker.__init__ / GeofenceChecker.reset
Fence_new == [consecutive_violations |-> 0, total_checks |-> 0, total_violations |-> 0]

max_violations == 5

\* GeofenceChecker.is_breached
Fence_is_breached(c) == c.consecutive_violations >= max_violations

\* Mutant of Fence_check: an inside check leaves the consecutive count alone.
Fence_check_without_reset(c, inside) ==
    IF inside
    THEN [c EXCEPT !.total_checks = @ + 1]
    ELSE [c EXCEPT !.total_checks = @ + 1, !.consecutive_violations = @ + 1,
                   !.total_violations = @ + 1]

\* GeofenceChecker.check: the counters after the check.
Fence_check(c, inside) ==
    IF inside
    THEN [c EXCEPT !.total_checks = @ + 1, !.consecutive_violations = 0]
    ELSE [c EXCEPT !.total_checks = @ + 1, !.consecutive_violations = @ + 1,
                   !.total_violations = @ + 1]

(***************************************************************************)
(* onboard/fusion.py                                                       *)
(***************************************************************************)
geofence_margin_m == 200    \* geofence_margin_km = 0.2

\* Mutant of Fusion_visual_selected: an output only for an accepted measurement.
Fusion_visual_selected_if_accepted(e, accepted) == accepted

\* Case 1 produces an output when the filter is initialized after the update.
Fusion_visual_selected(e, accepted) == e.initialized

\* Case 2 uses the prediction unless it is the (0, 0) of an unset filter.
Fusion_predict_usable(predicted) == predicted.lat # 0 \/ predicted.lon # 0

\* The selection before any candidate was found.
Fusion_no_candidate ==
    [pos |-> None, hdop |-> 990, source |-> "none", fix_quality |-> 0]

\* Case 1 after the filter update r: the output is the filter's position,
\* and the dead-reckoning reference is refreshed from the filter.
Fusion_after_ekf_update(r, d, hdop, t) ==
    IF Fusion_visual_selected(r.ekf, r.accepted)
    THEN [ekf |-> r.ekf,
          dr |-> DR_update_reference(EKF_position(r.ekf),
                                     EKF_velocity_mps(r.ekf).vn,
                                     EKF_velocity_mps(r.ekf).ve, hdop, t),
          accepted |-> r.accepted, branch |-> r.branch,
          sel |-> [pos |-> Some(EKF_position(r.ekf)), hdop |-> hdop,
                   source |-> "visual", fix_quality |-> 1]]
    ELSE [ekf |-> r.ekf, dr |-> d, accepted |-> r.accepted, branch |-> r.branch,
          sel |-> Fusion_no_candidate]

\* Case 1: a visual fix is available.
Fusion_case_visual(e, d, visual, hdop, t) ==
    Fusion_after_ekf_update(EKF_update(e, Get(visual), hdop, t), d, hdop, t)

\* Case 2 with the filter's prediction.
Fusion_select_predicted(predicted) ==
    IF Fusion_predict_usable(predicted)
    THEN [pos |-> Some(predicted), hdop |-> 30,
          source |-> "ekf_predict", fix_quality |-> 2]
    ELSE Fusion_no_candidate

\* Case 2: no visual fix, the filter has state.
Fusion_case_predict(e, t) == Fusion_select_predicted(EKF_predict(e, t))

\* Cases 1 and 2: filter, reference and selection after them.
Fusion_case_1_2(e, d, visual, hdop, t) ==
    IF visual # None THEN Fusion_case_visual(e, d, visual, hdop, t)
    ELSE [ekf |-> e, dr |-> d, accepted |-> FALSE, branch |-> "none",
          sel |-> IF e.initialized THEN Fusion_case_predict(e, t)
                  ELSE Fusion_no_candidate]

\* Case 3 with the result of the extrapolation.
Fusion_select_dr(sel, dr_result) ==
    IF dr_result # None
    THEN [pos |-> Some(Get(dr_result).pos), hdop |-> Get(dr_result).hdop,
          source |-> "dead_reckoning", fix_quality |-> 3]
    ELSE sel

\* Case 3: dead reckoning, tried when cases 1 and 2 left no position.
Fusion_case_dead_reckoning(sel, d, t) ==
    IF sel.pos # None THEN sel ELSE Fusion_select_dr(sel, DR_extrapolate(d, t))

\* Mutant of Fusion_fence_consulted: only visual fixes are checked.
Fusion_fence_consulted_visual_only(sel, cfg) ==
    sel.pos # None /\ cfg # None /\ sel.source = "visual"

\* Whether the geofence is consulted for the selection.
Fusion_fence_consulted(sel, cfg) == sel.pos # None /\ cfg # None

\* Mutant of Fusion_suppress: quality and source are cleared, the position stays.
Fusion_suppress_keeps_position(sel) ==
    [sel EXCEPT !.fix_quality = 0, !.source = "none"]

\* Mutant of Fusion_suppress: the position is cleared, quality and source stay.
Fusion_suppress_position_only(sel) == [sel EXCEPT !.pos = None]

\* The selection after a geofence violation: out-of-bounds positions are not sent.
Fusion_suppress(sel) ==
    [sel EXCEPT !.pos = None, !.fix_quality = 0, !.source = "none"]

\* The geofence check with the checker's answer.
Fusion_fence_checked(sel, cnt, inside) ==
    [sel |-> IF inside THEN sel ELSE Fusion_suppress(sel),
     geofence_ok |-> inside, fence |-> Fence_check(cnt, inside)]

\* The geofence check: selection, geofence_ok and the checker's counters.
Fusion_geofence(sel, cfg, cnt) ==
    IF Fusion_fence_consulted(sel, cfg)
    THEN Fusion_fence_checked(sel, cnt,
                              CircleGeofence_contains(Get(cfg), Get(sel.pos)))
    ELSE [sel |-> sel, geofence_ok |-> TRUE, fence |-> cnt]

\* Mutant of Fusion_output: a geofence violation drops the dead-reckoning
\* reference refreshed in the same call.
Fusion_output_violation_drops_reference(c1, c3, g) ==
    [ekf |-> c1.ekf, dr |-> IF g.geofence_ok THEN c1.dr ELSE None, fence |-> g.fence,
     branch |-> c1.branch, candidate |-> c3,
     out |-> [position |-> g.sel.pos, hdop |-> g.sel.hdop,
              speed_mps |-> IF c1.ekf.initialized THEN EKF_speed_mps(c1.ekf) ELSE 0,
              fix_quality |-> g.sel.fix_quality, source |-> g.sel.source,
              geofence_ok |-> g.geofence_ok, ekf_accepted |-> c1.accepted]]

\* The FusionOutput and the state left behind, from the cases' result c1, the
\* candidate c3 and the geofence's result g.  heading_deg, computed from the
\* filter's velocity alone and stored nowhere, is not represented.
Fusion_output(c1, c3, g) ==
    [ekf |-> c1.ekf, dr |-> c1.dr, fence |-> g.fence,
     branch |-> c1.branch, candidate |-> c3,
     out |-> [position |-> g.sel.pos, hdop |-> g.sel.hdop,
              speed_mps |-> IF c1.ekf.initialized THEN EKF_speed_mps(c1.ekf) ELSE 0,
              fix_quality |-> g.sel.fix_quality, source |-> g.sel.source,
              geofence_ok |-> g.geofence_ok, ekf_accepted |-> c1.accepted]]

\* The geofence and the output, for the candidate c3.
Fusion_finish(c1, c3, cfg, cnt) == Fusion_output(c1, c3, Fusion_geofence(c3, cfg, cnt))

\* Case 3, the geofence and the output, after cases 1 and 2.
Fusion_after_case_1_2(c1, cfg, cnt, t) ==
    Fusion_finish(c1, Fusion_case_dead_reckoning(c1.sel, c1.dr, t), cfg, cnt)

\* PositionFusion.update: the new filter, reference and counters, the output,
\* and the candidate the geofence was asked about.
PositionFusion_update(e, d, cfg, cnt, visual, hdop, t) ==
    Fusion_after_case_1_2(Fusion_case_1_2(e, d, visual, hdop, t), cfg, cnt, t)

\* Mutant of PositionFusion_reset: the new DeadReckoning is given a reference
\* at the filter's last position instead of none.
PositionFusion_reset_keeps_reference(e, cfg, cnt) ==
    [ekf |-> EKF_reset(e),
     dr |-> DR_update_reference(EKF_position(e), 0, 0, 10, e.last_t),
     fence |-> IF cfg # None THEN Fence_new ELSE cnt]

\* Mutant of PositionFusion_reset: the geofence counters are left as they were.
PositionFusion_reset_keeps_counters(e, cfg, cnt) ==
    [ekf |-> EKF_reset(e), dr |-> None, fence |-> cnt]

\* PositionFusion.reset: filter, reference and geofence counters.
PositionFusion_reset(e, cfg, cnt) ==
    [ekf |-> EKF_reset(e), dr |-> None,
     fence |-> IF cfg # None THEN Fence_new ELSE cnt]

(***************************************************************************)
(* onboard/main.py: the frame loop of main().                              *)
(*                                                                         *)
(* time.monotonic() is the variable clock, in whole seconds.  A tick takes *)
(* its sleeps and the time its stages need; the stages' time is an input,  *)
(* chosen so that every tick starts on a whole second: a failed grab takes *)
(* 0.9 s before the 100 ms sleep, a tick within its budget sleeps to the   *)
(* end of the period, a tick over its budget does not sleep.               *)
(***************************************************************************)
period_ms == 1000               \* period = 1.0 / config.target_hz, target_hz = 1.0
grab_retry_sleep_ms == 100      \* time.sleep(0.1)

\* main() is not running.
NoLoop == [pc |-> "not_started"]

\* main() at the first evaluation of "while _running": camera open, the
\* UartSender open when config.uart.enabled, the TelemetryLogger started when
\* config.telemetry_dir is set.  at_top, signal_frame and signal_pc are
\* history: the counters at the start of the current tick, and where the loop
\* was when the shutdown signal arrived.
Main_started(uartEnabled, telemetryEnabled) ==
    [pc |-> "top", running |-> TRUE, frame_num |-> 0, fixes |-> 0, misses |-> 0,
     t0 |-> 0, position |-> None, hdop |-> 0, ekf_accepted |-> FALSE,
     camera |-> "open",
     uart |-> IF uartEnabled THEN "open" ELSE "none",
     telemetry |-> IF telemetryEnabled THEN "started" ELSE "none",
     raised |-> FALSE, sent |-> None, writes |-> 0, rows |-> 0, slept_ms |-> 0,
     remaining_ms |-> 0, step |-> "start",
     at_top |-> [fixes |-> 0, misses |-> 0, writes |-> 0, rows |-> 0],
     signal_frame |-> -1, signal_pc |-> "none"]

\* _signal_handler: _running = False.
Main_signal_handler(l) ==
    [l EXCEPT !.running = FALSE, !.signal_frame = l.frame_num, !.signal_pc = l.pc]

\* Mutant of Main_keeps_running: the loop condition ignores the flag.
Main_keeps_running_always(l) == TRUE

\* while _running
Main_keeps_running(l) == l.running

\* The loop condition found false: on to the finally block.
Main_loop_exit(l) == [l EXCEPT !.pc = "finally", !.step = "exit"]

\* t0 = time.monotonic(); frame_num += 1
Main_tick_started(l, t) ==
    [l EXCEPT !.t0 = t, !.frame_num = @ + 1,
              !.at_top = [fixes |-> l.fixes, misses |-> l.misses,
                          writes |-> l.writes, rows |-> l.rows]]

\* camera.grab() returned None: warn, sleep 100 ms, continue.
Main_grab_failed(l, t) ==
    [Main_tick_started(l, t) EXCEPT !.slept_ms = grab_retry_sleep_ms,
                                    !.pc = "top", !.step = "grab_failed"]

\* camera.grab() returned a frame.
Main_grabbed(l, t) ==
    [Main_tick_started(l, t) EXCEPT !.pc = "match", !.step = "grabbed"]

\* The result of _try_match_frame and of the EKF update: fixes or misses.
Main_matched(l, position, hdop, accepted) ==
    [l EXCEPT !.position = position, !.hdop = hdop, !.ekf_accepted = accepted,
              !.fixes = IF position # None THEN @ + 1 ELSE @,
              !.misses = IF position = None THEN @ + 1 ELSE @,
              !.pc = "send", !.step = "matched"]

\* Mutant of Main_fix: the filter's position is sent as a fix only in a tick
\* with a visual match; a tick without one sends the invalid fix.
Main_fix_fresh_only(l, e) ==
    IF e.initialized /\ l.position # None
    THEN [lat |-> e.lat, lon |-> e.lon, hdop |-> l.hdop,
          speed_knots |-> RDiv(EKF_speed_mps(e) * 194384, 100000),
          fix_quality |-> 1]
    ELSE [lat |-> 0, lon |-> 0, hdop |-> 10, speed_knots |-> 0, fix_quality |-> 0]

\* The PositionFix of the tick: the filter's position once it is initialized
\* (speed in tenths of a knot), the invalid fix before that.
Main_fix(l, e) ==
    IF e.initialized
    THEN [lat |-> e.lat, lon |-> e.lon,
          hdop |-> IF l.position # None THEN l.hdop ELSE 20,
          speed_knots |-> RDiv(EKF_speed_mps(e) * 194384, 100000),
          fix_quality |-> 1]
    ELSE [lat |-> 0, lon |-> 0, hdop |-> 10, speed_knots |-> 0, fix_quality |-> 0]

\* uart.send_fix(fix) when a UartSender is configured.  written is the number
\* of sentences (GGA, RMC) serial.write took before it raised; 2 is success.
\* The loop has no except clause: the exception leaves the while loop.
Main_send(l, fix, written) ==
    IF l.uart = "none" THEN [l EXCEPT !.pc = "telemetry", !.step = "no_uart"]
    ELSE IF written = 2
    THEN [l EXCEPT !.sent = Some(fix), !.writes = @ + 2,
                   !.pc = "telemetry", !.step = "sent"]
    ELSE [l EXCEPT !.writes = @ + written, !.raised = TRUE,
                   !.pc = "finally", !.step = "write_failed"]

\* telemetry.log(rec) when a TelemetryLogger is configured.
Main_telemetry(l) ==
    [l EXCEPT !.rows = IF l.telemetry = "started" THEN @ + 1 ELSE @,
              !.pc = "sleep", !.step = "logged"]

\* Rate limiting: remaining = period - elapsed; time.sleep(remaining) is
\* entered when remaining > 0.
Main_rate_limit(l, elapsed_ms) ==
    IF period_ms - elapsed_ms > 0
    THEN [l EXCEPT !.remaining_ms = period_ms - elapsed_ms, !.slept_ms = 0,
                   !.pc = "sleeping", !.step = "sleeping"]
    ELSE [l EXCEPT !.remaining_ms = period_ms - elapsed_ms, !.slept_ms = 0,
                   !.pc = "top", !.step = "tick_done"]

\* time.sleep(remaining) returns.  A signal whose handler returns without
\* raising does not end the sleep: it is resumed for the time that is left
\* (PEP 475), so the loop has slept all of remaining in every case.
Main_sleep_returned(l) ==
    [l EXCEPT !.slept_ms = l.remaining_ms, !.pc = "top", !.step = "tick_done"]

\* The finally block: camera.close(), uart.close(), telemetry.stop(); then
\* main returns, or the exception that left the loop goes on.
Main_finally(l) ==
    [l EXCEPT !.camera = "closed",
              !.uart = IF @ = "none" THEN "none" ELSE "closed",
              !.telemetry = IF @ = "none" THEN "none" ELSE "stopped",
              !.pc = IF l.raised THEN "raised" ELSE "returned",
              !.step = "finally"]

(***************************************************************************)
(* onboard/rate_limiter.py                                                 *)
(*                                                                         *)
(* The limiter is called at a uniform rate of per_token calls per token    *)
(* period (input rate = per_token * max_hz).  Timestamps are counted in    *)
(* calls' spacings, 1 / (per_token * max_hz) seconds, and tokens in        *)
(* 1 / per_token of a token, so that elapsed * max_hz is the difference of *)
(* two timestamps.  The code adds the increments in doubles: the sum that  *)
(* is exactly one token in real numbers comes out as 1.0 or as             *)
(* 0.9999999999999999, depending on the timestamps (max_hz = 1, t = 1.0,   *)
(* 1.1, 1.2, ... gives 1.0; t = 1234.567, then adding 0.1 each time, falls *)
(* short every time).  The field short says which; it is a property of the *)
(* input, fixed for a run.  The field exact says whether the tokens are an *)
(* exact double (an initial or capped value) or such a rounded sum.        *)
(***************************************************************************)
Min(a, b) == IF a <= b THEN a ELSE b

\* RateLimiterStats; actual_hz as the fraction n / d of admissions per spacing.
RL_no_stats ==
    [total_requests |-> 0, accepted |-> 0, throttled |-> 0,
     actual_hz |-> [n |-> 0, d |-> 1]]

\* No RateLimiter exists.
NoLimiter == [max_hz |-> 0]

\* RateLimiter.__init__, with the schedule of the calls to come: the first
\* call at start_t, next_t the timestamp of the next call.
RL_new(max_hz, burst, per_token, short, start_t) ==
    [max_hz |-> max_hz, burst |-> burst, per_token |-> per_token,
     short |-> short, start_t |-> start_t, next_t |-> start_t,
     tokens |-> burst * per_token, exact |-> TRUE,
     last_t |-> 0, last_accept_t |-> 0,
     stats |-> RL_no_stats, accept_times |-> <<>>, ret |-> FALSE]

\* Mutant of RL_replenish: the tokens are not capped at burst.
RL_replenish_uncapped(r, t) ==
    IF r.last_t > 0 THEN r.tokens + (t - r.last_t) ELSE r.tokens

\* Replenish tokens: min(burst, tokens + elapsed * max_hz), skipped while
\* _last_t is still 0.0.
RL_replenish(r, t) ==
    IF r.last_t > 0
    THEN Min(r.burst * r.per_token, r.tokens + (t - r.last_t))
    ELSE r.tokens

\* Whether the replenished tokens are an exact double: the cap gives exactly
\* float(burst), an unchanged value stays as it was, a sum below the cap is
\* rounded.
RL_replenished_exact(r, t) ==
    IF r.last_t > 0 /\ t # r.last_t
    THEN r.tokens + (t - r.last_t) > r.burst * r.per_token
    ELSE r.exact

\* self._tokens >= 1.0 on the replenished tokens.  A rounded sum that is one
\* token in real numbers is 1.0, or just below it when the input is short.
RL_has_token(r, tokens, exact) ==
    \/ tokens > r.per_token
    \/ tokens = r.per_token /\ (exact \/ ~r.short)

\* self._accept_times after the append: the last 10 once there are over 20.
RL_accept_times(times) ==
    IF Len(times) > 20 THEN SubSeq(times, Len(times) - 9, Len(times)) ELSE times

\* stats.actual_hz from the tracked admissions.
RL_actual_hz(old, times) ==
    IF Len(times) >= 2 /\ times[Len(times)] - times[1] > 0
    THEN [n |-> Len(times) - 1, d |-> times[Len(times)] - times[1]]
    ELSE old

\* The admitted call: a token is taken, the admission is tracked.
RL_accept(r, t, tokens, exact, times) ==
    [r EXCEPT !.tokens = tokens - r.per_token, !.exact = exact,
              !.last_t = t, !.last_accept_t = t,
              !.stats.total_requests = @ + 1, !.stats.accepted = @ + 1,
              !.stats.actual_hz = RL_actual_hz(@, times),
              !.accept_times = times, !.ret = TRUE]

\* The throttled call.
RL_throttle(r, t, tokens, exact) ==
    [r EXCEPT !.tokens = tokens, !.exact = exact, !.last_t = t,
              !.stats.total_requests = @ + 1, !.stats.throttled = @ + 1,
              !.ret = FALSE]

\* allow(t) on the replenished tokens.
RL_decide(r, t, tokens, exact) ==
    IF RL_has_token(r, tokens, exact)
    THEN RL_accept(r, t, tokens, exact, RL_accept_times(Append(r.accept_times, t)))
    ELSE RL_throttle(r, t, tokens, exact)

\* RateLimiter.allow
RL_allow(r, t) == RL_decide(r, t, RL_replenish(r, t), RL_replenished_exact(r, t))

\* RateLimiter.time_until_next, in the time unit of the model: 0.0 when the
\* stored tokens are at least 1.0, else (1.0 - tokens) / max_hz.
RL_time_until_next(r) ==
    IF RL_has_token(r, r.tokens, r.exact) THEN 0 ELSE r.per_token - r.tokens

(***************************************************************************)
(* onboard/uart_manager.py                                                 *)
(*                                                                         *)
(* serial is "none" for _serial = None and "port" for a Serial object;     *)
(* connected is _stats.connected.  log lists what the send in progress (or *)
(* the last one) did to the port, in order; it is history, not a field of  *)
(* the code.  raised is the exception that has left open, close or send    *)
(* ("" while none has), faults the port operations that have failed so     *)
(* far; both are history too.  retry_delay_s is not negative (time.sleep   *)
(* raises ValueError on a negative length).                                *)
(***************************************************************************)
UART_no_stats ==
    [bytes_sent |-> 0, messages_sent |-> 0, errors |-> 0, reconnects |-> 0,
     last_send_t |-> 0, last_error_t |-> 0]

\* No UARTManager exists.
NoUart == [pc |-> "none"]

\* UARTManager.__init__
UART_new(max_retries) ==
    [max_retries |-> max_retries, serial |-> "none", connected |-> FALSE,
     stats |-> UART_no_stats,
     pc |-> "idle", attempt |-> 0, t |-> 0, len |-> 0, ret |-> FALSE,
     sends |-> 0, log |-> <<>>, pre_reconnects |-> 0,
     raised |-> "", faults |-> {}]

\* Mutant of UART_open: no except clause around serial.Serial(...).
UART_open_uncaught(u, ok) ==
    IF ok
    THEN [u EXCEPT !.serial = "port", !.connected = TRUE,
                   !.log = Append(@, "open_ok")]
    ELSE [u EXCEPT !.raised = "SerialException", !.faults = @ \cup {"open"},
                   !.log = Append(@, "open_failed")]

\* UARTManager.open: serial.Serial(...) succeeds, or raises into the except
\* clause of open.
UART_open(u, ok) ==
    IF ok
    THEN [u EXCEPT !.serial = "port", !.connected = TRUE,
                   !.log = Append(@, "open_ok")]
    ELSE [u EXCEPT !.connected = FALSE, !.faults = @ \cup {"open"},
                   !.log = Append(@, "open_failed")]

\* UARTManager.close: the port's close() is called when there is a port; an
\* exception from it is passed over.
UART_close(u, closeOk) ==
    [u EXCEPT !.serial = "none", !.connected = FALSE,
              !.faults = IF u.serial # "none" /\ ~closeOk THEN @ \cup {"close"} ELSE @,
              !.log = Append(@, "close")]

\* self._stats.reconnects += 1
UART_count_reconnect(u) ==
    [u EXCEPT !.stats.reconnects = @ + 1, !.log = Append(@, "reconnect")]

\* UARTManager._reconnect: close, count, open.
UART_reconnect(u, ok, closeOk) ==
    UART_open(UART_count_reconnect(UART_close(u, closeOk)), ok)

\* Mutant of UART_needs_reconnect: only a missing port is reopened.
UART_needs_reconnect_without_port(u) == u.serial = "none"

\* if self._serial is None or not self._stats.connected
UART_needs_reconnect(u) == u.serial = "none" \/ ~u.connected

\* send returns r.
UART_return(u, r) == [u EXCEPT !.pc = "idle", !.ret = r]

\* write or flush raised into the except clause of send: count the error,
\* mark the port disconnected, sleep retry_delay_s when an attempt is left.
UART_write_failed(u, w) ==
    [u EXCEPT !.stats.errors = @ + 1, !.stats.last_error_t = u.t,
              !.connected = FALSE,
              !.faults = @ \cup {IF w = "flush_raised" THEN "flush" ELSE "write"},
              !.log = IF u.attempt < u.max_retries
                      THEN @ \o <<"write_failed", "sleep">>
                      ELSE Append(@, "write_failed")]

\* The next iteration of "for attempt in range(max_retries + 1)", or the
\* "return False" after the loop.
UART_next_attempt(u) ==
    IF u.attempt < u.max_retries THEN [u EXCEPT !.attempt = @ + 1]
    ELSE UART_return(u, FALSE)

\* self._serial.write(data); self._serial.flush() succeeded.
UART_written(u) ==
    [u EXCEPT !.stats.bytes_sent = @ + u.len, !.stats.messages_sent = @ + 1,
              !.stats.last_send_t = u.t, !.log = Append(@, "write_ok")]

\* The try block of one attempt; w is "ok", "write_raised" or "flush_raised".
UART_write(u, w) ==
    IF w = "ok" THEN UART_return(UART_written(u), TRUE)
    ELSE UART_next_attempt(UART_write_failed(u, w))

\* One attempt after _reconnect: "return False" when the open failed.
UART_after_reconnect(u, w) ==
    IF u.raised # "" THEN [u EXCEPT !.pc = "raised"]
    ELSE IF ~u.connected THEN UART_return(u, FALSE) ELSE UART_write(u, w)

\* One iteration of the loop of UARTManager.send.
UART_attempt(u, openOk, closeOk, w) ==
    IF UART_needs_reconnect(u)
    THEN UART_after_reconnect(UART_reconnect(u, openOk, closeOk), w)
    ELSE UART_write(u, w)

\* UARTManager.send entered with len bytes at time t.
UART_send_begin(u, len, t) ==
    [u EXCEPT !.pc = "attempt", !.attempt = 0, !.t = t, !.len = len,
              !.sends = @ + 1, !.log = <<>>,
              !.pre_reconnects = u.stats.reconnects]

(***************************************************************************)
(* onboard/tile_cache.py                                                   *)
(*                                                                         *)
(* order is the OrderedDict's key order, oldest first; the image stored    *)
(* under a key is the file's content and not represented.  used and last   *)
(* are history: the number of the get that last hit or inserted each key,  *)
(* and the last operation with the cache before it.                        *)
(***************************************************************************)
\* The tile files the model asks for.
Paths == {"a", "b", "c"}

\* No TileCache exists.
NoCache == [max |-> -1]

\* TileCache.__init__ (max_tiles >= 0)
TC_new(max_tiles) ==
    [max |-> max_tiles, order |-> <<>>, hits |-> 0, misses |-> 0,
     ops |-> 0, used |-> [p \in Paths |-> 0],
     last |-> [op |-> "new", key |-> "", ret |-> "none",
               pre_order |-> <<>>, pre_used |-> [p \in Paths |-> 0]]]

\* The keys of the cache.
TC_keys(order) == {order[i] : i \in 1..Len(order)}

\* Mutant of TC_move_to_end: the order is left as it is.
TC_move_to_end_skipped(order, key) == order

\* OrderedDict.move_to_end(key) for a key of the dictionary.
TC_move_to_end(order, key) ==
    Append(SelectSeq(order, LAMBDA k : k # key), key)

\* Mutant of TC_evict: one entry too many is kept.
TC_evict_late(order, max) ==
    IF Len(order) > max + 1
    THEN SubSeq(order, Len(order) - max, Len(order)) ELSE order

\* while len(self._cache) > self._max: self._cache.popitem(last=False)
TC_evict(order, max) ==
    IF Len(order) > max
    THEN SubSeq(order, Len(order) - max + 1, Len(order)) ELSE order

\* The hit: count it and move the key to the end.
TC_hit(c, key) ==
    [c EXCEPT !.hits = @ + 1, !.order = TC_move_to_end(@, key)]

\* The miss: count it; an unreadable file (cv2.imread gives None) changes
\* nothing else, a readable one is inserted at the end and the oldest
\* entries are evicted.
TC_miss(c, key, readable) ==
    IF ~readable THEN [c EXCEPT !.misses = @ + 1]
    ELSE [c EXCEPT !.misses = @ + 1,
                   !.order = TC_evict(TC_move_to_end(Append(@, key), key), c.max)]

\* TileCache.get: the cache after the call.
TC_get(c, key, readable) ==
    IF key \in TC_keys(c.order) THEN TC_hit(c, key) ELSE TC_miss(c, key, readable)

\* What TileCache.get returns: the cached image, the loaded image, or None.
TC_get_result(c, key, readable) ==
    IF key \in TC_keys(c.order) THEN "hit"
    ELSE IF readable THEN "loaded" ELSE "none"

\* TileCache.clear
TC_clear(c) == [c EXCEPT !.order = <<>>, !.hits = 0, !.misses = 0]

(***************************************************************************)
(* FlightRecord and FlightRecorder (onboard/flight_recorder.py).           *)
(*                                                                         *)
(* Files and packed records are sequences of bytes.  A float field holds   *)
(* the offset M of a double's 52-bit mantissa from a fixed value (the sign,*)
(* the exponent and the high mantissa bits are the same for every value    *)
(* and are zero bytes here): struct packs a 'd' field as it is and rounds  *)
(* an 'f' field to the 23-bit mantissa of a single, which drops the low 29 *)
(* bits of M, ties to even.                                                *)
(***************************************************************************)
\* struct.calcsize: the widths of the fields of a '<' format add up, no padding.
RECORD_FMT == <<8, 8, 8, 4, 4, 4, 4, 4, 1, 1, 2, 4, 2, 2>>

RECORD_SIZE ==
    RECORD_FMT[1] + RECORD_FMT[2] + RECORD_FMT[3] + RECORD_FMT[4] + RECORD_FMT[5]
    + RECORD_FMT[6] + RECORD_FMT[7] + RECORD_FMT[8] + RECORD_FMT[9] + RECORD_FMT[10]
    + RECORD_FMT[11] + RECORD_FMT[12] + RECORD_FMT[13] + RECORD_FMT[14]

HEADER_MAGIC == <<86, 80, 83, 70>>
HEADER_VERSION == 2
HEADER_FMT == <<4, 2, 2>>
HEADER_SIZE == HEADER_FMT[1] + HEADER_FMT[2] + HEADER_FMT[3]

\* The low mantissa bits a single does not keep: 2^29.
SingleStep == 536870912

Pow256(i) == IF i = 0 THEN 1 ELSE IF i = 1 THEN 256 ELSE IF i = 2 THEN 65536 ELSE 16777216

\* Little-endian bytes of v in a field n bytes wide.
LEBytes(v, n) == [i \in 1..n |-> IF i <= 4 THEN (v \div Pow256(i - 1)) % 256 ELSE 0]

\* The value of little-endian bytes (values below 2^31).
LEValue(b) ==
    (IF Len(b) >= 1 THEN b[1] ELSE 0) + (IF Len(b) >= 2 THEN b[2] * 256 ELSE 0)
    + (IF Len(b) >= 3 THEN b[3] * 65536 ELSE 0) + (IF Len(b) >= 4 THEN b[4] * 16777216 ELSE 0)

\* struct.pack of 'f': the single nearest to the double, ties to even.
SingleOf(m) ==
    LET q == m \div SingleStep
        r == m % SingleStep
    IN  IF 2 * r > SingleStep \/ (2 * r = SingleStep /\ q % 2 = 1) THEN q + 1 ELSE q

PackSingle(m) == LEBytes(SingleOf(m), 4)

\* struct.unpack of 'f': the single as a double.
UnpackSingle(b) == LEValue(b) * SingleStep

\* FlightRecord.pack
FlightRecord_pack(r) ==
    LEBytes(r.timestamp, 8) \o LEBytes(r.lat, 8) \o LEBytes(r.lon, 8)
    \o PackSingle(r.vn_mps) \o PackSingle(r.ve_mps) \o PackSingle(r.hdop)
    \o PackSingle(r.speed_mps) \o PackSingle(r.heading_deg)
    \o LEBytes(r.fix_quality, 1) \o LEBytes(r.source, 1) \o LEBytes(r.match_count, 2)
    \o PackSingle(r.inlier_ratio) \o LEBytes(r.latency_ms, 2) \o LEBytes(r.flags, 2)

\* The bytes of field k (1..14) of a packed record.
RecordField(data, k) ==
    LET start == IF k = 1 THEN 0 ELSE IF k = 2 THEN 8 ELSE IF k = 3 THEN 16
                 ELSE IF k <= 8 THEN 24 + 4 * (k - 4)
                 ELSE IF k = 9 THEN 44 ELSE IF k = 10 THEN 45 ELSE IF k = 11 THEN 46
                 ELSE IF k = 12 THEN 48 ELSE IF k = 13 THEN 52 ELSE 54
    IN  SubSeq(data, start + 1, start + RECORD_FMT[k])

\* FlightRecord.unpack
FlightRecord_unpack(data) ==
    [timestamp |-> LEValue(RecordField(data, 1)),
     lat |-> LEValue(RecordField(data, 2)),
     lon |-> LEValue(RecordField(data, 3)),
     vn_mps |-> UnpackSingle(RecordField(data, 4)),
     ve_mps |-> UnpackSingle(RecordField(data, 5)),
     hdop |-> UnpackSingle(RecordField(data, 6)),
     speed_mps |-> UnpackSingle(RecordField(data, 7)),
     heading_deg |-> UnpackSingle(RecordField(data, 8)),
     fix_quality |-> LEValue(RecordField(data, 9)),
     source |-> LEValue(RecordField(data, 10)),
     match_count |-> LEValue(RecordField(data, 11)),
     inlier_ratio |-> UnpackSingle(RecordField(data, 12)),
     latency_ms |-> LEValue(RecordField(data, 13)),
     flags |-> LEValue(RecordField(data, 14))]

\* struct.pack(HEADER_FMT, magic, version, rec_size)
Header_pack(magic, version, rec_size) ==
    magic \o LEBytes(version, 2) \o LEBytes(rec_size, 2)

\* No recorder was constructed.
NoRecorder == [count |-> -1]

\* FlightRecorder(path): _file is <<>> for None, else the open file object
\* <<[pos, buf]>>: the offset its buffer will be written at and the buffer.
\* disk is the file at the path, recorded the records passed to record()
\* since the last start() while recording, restarted whether that start()
\* found a file open, op the last call that did something, calls the number
\* of record() calls.
Recorder_new ==
    [file |-> None, count |-> 0, disk |-> <<>>, recorded |-> <<>>,
     restarted |-> FALSE, op |-> "init", calls |-> 0]

\* Writing buf at offset pos of the file content disk.
File_write_at(disk, pos, buf) ==
    LET n == Max(Len(disk), pos + Len(buf))
    IN  [i \in 1..n |-> IF i > pos /\ i <= pos + Len(buf) THEN buf[i - pos]
                        ELSE IF i <= Len(disk) THEN disk[i] ELSE 0]

\* file.flush(): the buffer goes to the file at the object's offset.
File_flushed(disk, f) == File_write_at(disk, f.pos, f.buf)

\* The file after open(path, "wb") while the object old was still assigned
\* to _file: the file is truncated, then the old object is released and
\* closed, which writes its buffer.
File_reopened(old) ==
    IF old = None THEN <<>> ELSE File_flushed(<<>>, Get(old))

\* FlightRecorder.start
Recorder_start(r) ==
    [r EXCEPT !.file = Some([pos |-> 0,
                             buf |-> Header_pack(HEADER_MAGIC, HEADER_VERSION, RECORD_SIZE)]),
              !.disk = File_reopened(r.file),
              !.count = 0,
              !.recorded = <<>>,
              !.restarted = r.file # None,
              !.op = "start"]

\* The file object after write(data) and the flush of every 100th record.
Recorder_written(r, f, data, count) ==
    IF count % 100 = 0
    THEN [r EXCEPT !.file = Some([pos |-> f.pos + Len(f.buf) + Len(data), buf |-> <<>>]),
                   !.disk = File_flushed(r.disk, [f EXCEPT !.buf = f.buf \o data]),
                   !.count = count]
    ELSE [r EXCEPT !.file = Some([f EXCEPT !.buf = f.buf \o data]),
                   !.count = count]

\* Mutant of Recorder_record: the record is counted but not written.
Recorder_record_unwritten(r, x) ==
    IF r.file = None THEN r
    ELSE [r EXCEPT !.count = r.count + 1, !.recorded = Append(r.recorded, x),
                   !.op = "record"]

\* FlightRecorder.record
Recorder_record(r, x) ==
    IF r.file = None THEN r
    ELSE [Recorder_written(r, Get(r.file), FlightRecord_pack(x), r.count + 1)
             EXCEPT !.recorded = Append(r.recorded, x), !.op = "record"]

\* FlightRecorder.stop
Recorder_stop(r) ==
    IF r.file = None THEN r
    ELSE [r EXCEPT !.disk = File_flushed(r.disk, Get(r.file)), !.file = None, !.op = "stop"]

\* The header fields of a file with a whole header.
Header_unpack(disk) ==
    [magic |-> SubSeq(disk, 1, 4), version |-> LEValue(SubSeq(disk, 5, 6)),
     rec_size |-> LEValue(SubSeq(disk, 7, 8))]

\* The records of a file with an accepted header: whole chunks of rec_size
\* bytes are unpacked; unpack raises struct.error on a chunk of another size.
Recorder_read_records(disk, rec_size) ==
    LET body == Len(disk) - HEADER_SIZE
    IN  IF rec_size = 0 \/ (rec_size # RECORD_SIZE /\ body >= rec_size)
        THEN [raised |-> "struct.error", records |-> <<>>]
        ELSE [raised |-> "",
              records |-> [i \in 1..(body \div rec_size) |->
                             FlightRecord_unpack(SubSeq(disk, HEADER_SIZE + (i - 1) * rec_size + 1,
                                                        HEADER_SIZE + i * rec_size))]]

\* Mutant of Recorder_read: the header is not looked at.
Recorder_read_unchecked(disk) ==
    IF Len(disk) < HEADER_SIZE THEN [raised |-> "", records |-> <<>>]
    ELSE Recorder_read_records(disk, Header_unpack(disk).rec_size)

\* FlightRecorder.read: what it raises ("" if nothing) and what it returns.
Recorder_read(disk) ==
    IF Len(disk) < HEADER_SIZE THEN [raised |-> "", records |-> <<>>]
    ELSE IF Header_unpack(disk).magic # HEADER_MAGIC
         THEN [raised |-> "ValueError: Invalid file magic", records |-> <<>>]
    ELSE IF Header_unpack(disk).version > HEADER_VERSION
         THEN [raised |-> "ValueError: Unsupported version", records |-> <<>>]
    ELSE Recorder_read_records(disk, Header_unpack(disk).rec_size)

\* FlightRecorder.file_info
Recorder_file_info(disk) ==
    IF Len(disk) < HEADER_SIZE
    THEN [raised |-> "struct.error", version |-> 0, record_size |-> 0, record_count |-> 0,
          file_size_bytes |-> 0]
    ELSE [raised |-> "",
          version |-> Header_unpack(disk).version,
          record_size |-> Header_unpack(disk).rec_size,
          record_count |-> IF Header_unpack(disk).rec_size > 0
                           THEN (Len(disk) - HEADER_SIZE) \div Header_unpack(disk).rec_size
                           ELSE 0,
          file_size_bytes |-> Len(disk)]

(***************************************************************************)
(* MSP_SET_RAW_GPS frames (onboard/msp.py).                                *)
(***************************************************************************)
MSP_SET_RAW_GPS == 201

\* Bit i of a byte.
Bit(b, i) ==
    (b \div (IF i = 0 THEN 1 ELSE IF i = 1 THEN 2 ELSE IF i = 2 THEN 4 ELSE IF i = 3 THEN 8
             ELSE IF i = 4 THEN 16 ELSE IF i = 5 THEN 32 ELSE IF i = 6 THEN 64 ELSE 128)) % 2

\* a ^ b on bytes.
XorByte(a, b) ==
    ((Bit(a, 0) + Bit(b, 0)) % 2)
    + (2 * ((Bit(a, 1) + Bit(b, 1)) % 2)
       + (4 * ((Bit(a, 2) + Bit(b, 2)) % 2)
          + (8 * ((Bit(a, 3) + Bit(b, 3)) % 2)
             + (16 * ((Bit(a, 4) + Bit(b, 4)) % 2)
                + (32 * ((Bit(a, 5) + Bit(b, 5)) % 2)
                   + (64 * ((Bit(a, 6) + Bit(b, 6)) % 2)
                      + 128 * ((Bit(a, 7) + Bit(b, 7)) % 2)))))))

\* Mutant of msp_checksum: the bytes are added instead of XOR-ed.
msp_checksum_added(data) ==
    LET cs[k \in 0..Len(data)] == IF k = 0 THEN 0 ELSE (cs[k - 1] + data[k]) % 256
    IN  cs[Len(data)]

\* msp_checksum: cs = 0; for b in data: cs ^= b.
msp_checksum(data) ==
    LET cs[k \in 0..Len(data)] == IF k = 0 THEN 0 ELSE XorByte(cs[k - 1], data[k])
    IN  cs[Len(data)]

\* Little-endian bytes of a signed 32-bit value (two's complement).
Int32Bytes(v) == [i \in 1..4 |-> (v \div Pow256(i - 1)) % 256]

\* struct.pack accepts the values of the 'B' and 'H' fields ('i' holds every
\* value of the model; alt is masked to 16 bits before it is packed).
MSP_pack_accepts(gps) ==
    /\ gps.fix_type \in 0..255 /\ gps.num_sats \in 0..255
    /\ gps.speed \in 0..65535 /\ gps.ground_course \in 0..65535 /\ gps.hdop \in 0..65535

\* int(x): the integer part, toward zero, of the quotient a / d.
IntPart(a, d) == IF a >= 0 THEN a \div d ELSE -((-a) \div d)

\* int(alt_m * 100) for an altitude of alt_mm millimetres.  The product is
\* formed in doubles: a product that is a whole number of centimetres in
\* real numbers may come out just below it (0.29 * 100 is
\* 28.999999999999996), and int() then gives the centimetre before; short
\* says whether it does.
MSP_alt_cm(alt_mm, short) ==
    IF short /\ alt_mm % 10 = 0 /\ alt_mm # 0
    THEN IntPart(alt_mm, 10) - (IF alt_mm > 0 THEN 1 ELSE -1)
    ELSE IntPart(alt_mm, 10)

\* MSPGPSData.from_position, from lat and lon in 1e-8 degrees, the altitude
\* in millimetres, the speed in mm/s, the heading in hundredths of a degree
\* and hdop in thousandths.
MSP_from_position(p) ==
    [fix_type |-> p.fix_type, num_sats |-> p.num_sats,
     lat |-> IntPart(p.lat, 10), lon |-> IntPart(p.lon, 10),
     alt |-> MSP_alt_cm(p.alt_mm, p.short),
     speed |-> IntPart(p.speed, 10),
     ground_course |-> IntPart(p.heading, 10) % 3600,
     hdop |-> IntPart(p.hdop, 10)]

\* Mutant of MSP_payload: the altitude is clamped to an int16 before the mask.
MSP_payload_clamped(gps) ==
    <<gps.fix_type, gps.num_sats>> \o Int32Bytes(gps.lat) \o Int32Bytes(gps.lon)
    \o LEBytes(Max(-32768, Min(32767, gps.alt)) % 65536, 2) \o LEBytes(gps.speed, 2)
    \o LEBytes(gps.ground_course, 2) \o LEBytes(gps.hdop, 2)

\* struct.pack("<BBiiHHHH", ...) of encode_set_raw_gps.
MSP_payload(gps) ==
    <<gps.fix_type, gps.num_sats>> \o Int32Bytes(gps.lat) \o Int32Bytes(gps.lon)
    \o LEBytes(gps.alt % 65536, 2) \o LEBytes(gps.speed, 2)
    \o LEBytes(gps.ground_course, 2) \o LEBytes(gps.hdop, 2)

\* The frame around a payload: header, length, command, payload, checksum.
MSP_frame(payload) ==
    <<36, 77, 60>> \o <<Len(payload), MSP_SET_RAW_GPS>> \o payload
    \o <<msp_checksum(<<Len(payload), MSP_SET_RAW_GPS>> \o payload)>>

\* encode_set_raw_gps: what it raises ("" if nothing) and the frame.
encode_set_raw_gps(gps) ==
    IF ~MSP_pack_accepts(gps) THEN [raised |-> "struct.error", frame |-> <<>>]
    ELSE [raised |-> "", frame |-> MSP_frame(MSP_payload(gps))]

(***************************************************************************)
(* AdaptiveController (onboard/adaptive.py).  Ratios and thresholds are in *)
(* hundredths, the target fix rate in thousandths.                         *)
(***************************************************************************)
\* MatchParams(): the defaults.
MatchParams_new ==
    [min_matches |-> 15, min_inlier_ratio |-> 30, max_features |-> 500,
     match_ratio_threshold |-> 75, blur_reject_threshold |-> 5000]

\* AdaptiveController(window_size, target_fix_rate, min_min_matches, max_min_matches)
Adaptive_new(window_size, target_fix_rate, min_min_matches, max_min_matches) ==
    [window_size |-> window_size, target_fix_rate |-> target_fix_rate,
     min_min_matches |-> min_min_matches, max_min_matches |-> max_min_matches,
     params |-> MatchParams_new, results |-> <<>>, inlier_ratios |-> <<>>,
     blur_levels |-> <<>>, op |-> "init"]

\* list[-n:]
LastN(s, n) == IF Len(s) <= n THEN s ELSE SubSeq(s, Len(s) - n + 1, Len(s))

\* The trimming of a history list in record_result.
Adaptive_trim(s, window_size) == IF Len(s) > window_size * 2 THEN LastN(s, window_size) ELSE s

\* sum(window) of the recent results.
Adaptive_successes(a) ==
    Cardinality({i \in 1..Len(LastN(a.results, a.window_size)) :
                   LastN(a.results, a.window_size)[i]})

\* len(window) of the recent results.
Adaptive_window_len(a) == Len(LastN(a.results, a.window_size))

\* recent_fix_rate < target_fix_rate * k / 2 (recent_fix_rate is 0.0 on an
\* empty history).
Adaptive_rate_below(a, k) ==
    IF a.results = <<>> THEN 0 < a.target_fix_rate * k
    ELSE 2000 * Adaptive_successes(a) < a.target_fix_rate * k * Adaptive_window_len(a)

\* recent_fix_rate > target_fix_rate * 1.5
Adaptive_rate_above(a) ==
    IF a.results = <<>> THEN FALSE
    ELSE 2000 * Adaptive_successes(a) > a.target_fix_rate * 3 * Adaptive_window_len(a)

\* The three branches of _adjust on the parameters p.
Adaptive_relax(a, p) ==
    [p EXCEPT !.min_matches = Max(a.min_min_matches, p.min_matches - 1),
              !.min_inlier_ratio = Max(15, p.min_inlier_ratio - 2),
              !.match_ratio_threshold = Min(85, p.match_ratio_threshold + 2),
              !.max_features = Min(1000, p.max_features + 50)]

Adaptive_relax_slightly(a, p) ==
    [p EXCEPT !.min_matches = Max(a.min_min_matches, p.min_matches - 1),
              !.min_inlier_ratio = Max(20, p.min_inlier_ratio - 1)]

Adaptive_tighten(a, p) ==
    [p EXCEPT !.min_matches = Min(a.max_min_matches, p.min_matches + 1),
              !.min_inlier_ratio = Min(50, p.min_inlier_ratio + 1),
              !.match_ratio_threshold = Max(65, p.match_ratio_threshold - 1),
              !.max_features = Max(300, p.max_features - 25)]

\* AdaptiveController._adjust
Adaptive_adjust(a) ==
    [a EXCEPT !.params = IF Adaptive_rate_below(a, 1) THEN Adaptive_relax(a, a.params)
                         ELSE IF Adaptive_rate_below(a, 2)
                              THEN Adaptive_relax_slightly(a, a.params)
                         ELSE IF Adaptive_rate_above(a) THEN Adaptive_tighten(a, a.params)
                         ELSE a.params]

\* AdaptiveController.record_result
Adaptive_record_result(a, success, inlier_ratio, blur) ==
    Adaptive_adjust(
        [a EXCEPT !.results = Adaptive_trim(Append(a.results, success), a.window_size),
                  !.inlier_ratios =
                      Adaptive_trim(IF success THEN Append(a.inlier_ratios, inlier_ratio)
                                    ELSE a.inlier_ratios, a.window_size),
                  !.blur_levels =
                      Adaptive_trim(IF blur > 0 THEN Append(a.blur_levels, blur)
                                    ELSE a.blur_levels, a.window_size),
                  !.op = "record_result"])

\* AdaptiveController.reset
Adaptive_reset(a) ==
    [a EXCEPT !.params = MatchParams_new, !.results = <<>>, !.inlier_ratios = <<>>,
              !.blur_levels = <<>>, !.op = "reset"]

(***************************************************************************)
(* onboard/main.py: _try_match_frame, the loop over the retrieved tiles.   *)
(* A candidate is what the steps of the loop find for it: whether its tile *)
(* image loads, the number of matches, whether a homography is found, its  *)
(* inlier ratio (hundredths) and the position it projects to.              *)
(***************************************************************************)
\* MatcherConfig defaults: min_matches and confidence_threshold (hundredths).
min_matches == 15
confidence_threshold == 30

\* The result tuple of a frame without a match.
Match_none == [position |-> None, hdop |-> 0, inlier_ratio |-> 0, num_matches |-> 0, tile |-> 0]

\* _try_match_frame after retrieval: the loop starts at the first candidate.
Match_started(candidates) ==
    [pc |-> "loop", candidates |-> candidates, i |-> 1, examined |-> <<>>,
     ret |-> Match_none]

\* match_and_localize returns a result: a homography was found and its
\* inlier ratio is not below min_inlier_ratio.
Match_localized(c) == c.homography /\ ~(c.inlier_ratio < confidence_threshold)

\* hdop = max(0.5, 5.0 * (1.0 - confidence)), in tenths.
Match_hdop(c) == Max(5, RDiv(50 * (100 - c.inlier_ratio), 100))

\* The tuple returned for a localized candidate.
Match_result(c) ==
    [position |-> Some(c.position), hdop |-> Match_hdop(c), inlier_ratio |-> c.inlier_ratio,
     num_matches |-> c.num_matches, tile |-> c.tile]

\* continue: on to the next candidate.
Match_continue(m) == [m EXCEPT !.i = m.i + 1, !.examined = Append(m.examined, m.i)]

\* return from inside the loop.
Match_return(m, c) ==
    [m EXCEPT !.pc = "returned", !.examined = Append(m.examined, m.i),
              !.ret = Match_result(c)]

\* Mutant of Match_examine: a tile image that does not load ends the search.
Match_examine_abort_unreadable(m, c) ==
    IF ~c.loads THEN [m EXCEPT !.pc = "returned", !.examined = Append(m.examined, m.i)]
    ELSE IF c.num_matches < min_matches THEN Match_continue(m)
    ELSE IF Match_localized(c) THEN Match_return(m, c)
    ELSE Match_continue(m)

\* One iteration of the loop, on candidate c = candidates[i].
Match_examine(m, c) ==
    IF ~c.loads THEN Match_continue(m)
    ELSE IF c.num_matches < min_matches THEN Match_continue(m)
    ELSE IF Match_localized(c) THEN Match_return(m, c)
    ELSE Match_continue(m)

\* The loop is exhausted: return None, 0.0, 0.0, 0, 0, 0, 0.
Match_exhausted(m) == [m EXCEPT !.pc = "returned", !.ret = Match_none]

(***************************************************************************)
(* MapLoader (onboard/map_loader.py).  A pack is of kind "no_dir",         *)
(* "no_tile_list", "invalid_json" or "tile_list", the last with the        *)
(* entries of its index/tile_list.json; the packs of the model hold no     *)
(* metadata.json.  _tiles, a dict, is a function from (z, x, y) to the     *)
(* path of its entry.                                                      *)
(***************************************************************************)
\* The zoom levels of the model's tiles.
Zooms == {17, 19}

\* MapLoader(pack_dir)
MapLoader_new(pack) ==
    [pack |-> pack, tiles |-> <<>>, tiles_by_zoom |-> [z \in Zooms |-> <<>>],
     tile_count |-> 0, zoom_levels |-> <<>>, loaded |-> FALSE,
     op |-> "init", ret |-> FALSE, loads |-> 0]

\* The key (z, x, y) of an entry.
TileKey(e) == <<e.z, e.x, e.y>>

\* self._tiles[(z, x, y)] = te for each entry in turn: a key read again
\* takes the later entry.
MapLoader_tiles(tiles, entries) ==
    [k \in DOMAIN tiles \cup {TileKey(entries[i]) : i \in 1..Len(entries)} |->
       IF \E i \in 1..Len(entries) : TileKey(entries[i]) = k
       THEN entries[CHOOSE i \in 1..Len(entries) :
                      /\ TileKey(entries[i]) = k
                      /\ \A j \in (i + 1)..Len(entries) : TileKey(entries[j]) # k].path
       ELSE tiles[k]]

\* self._tiles_by_zoom[z].append(te) for each entry in turn.
MapLoader_by_zoom(by_zoom, entries) ==
    [z \in Zooms |-> by_zoom[z] \o SelectSeq(entries, LAMBDA e : e.z = z)]

\* sorted(self._tiles_by_zoom.keys())
MapLoader_sorted_zooms(by_zoom) ==
    [i \in 1..Cardinality({z \in Zooms : by_zoom[z] # <<>>}) |->
       CHOOSE z \in {u \in Zooms : by_zoom[u] # <<>>} :
          Cardinality({u \in Zooms : by_zoom[u] # <<>> /\ u < z}) = i - 1]

\* load() on a readable tile list.
MapLoader_loaded(m, tiles, by_zoom) ==
    [m EXCEPT !.tiles = tiles, !.tiles_by_zoom = by_zoom,
              !.tile_count = Cardinality(DOMAIN tiles),
              !.zoom_levels = IF m.zoom_levels = <<>> THEN MapLoader_sorted_zooms(by_zoom)
                              ELSE m.zoom_levels,
              !.loaded = TRUE, !.op = "load", !.ret = TRUE]

\* MapLoader.load
MapLoader_load(m) ==
    IF m.pack.kind # "tile_list"
    THEN [m EXCEPT !.op = "load", !.ret = FALSE]
    ELSE MapLoader_loaded(m, MapLoader_tiles(m.tiles, m.pack.entries),
                          MapLoader_by_zoom(m.tiles_by_zoom, m.pack.entries))

\* MapLoader.tile_count
MapLoader_tile_count(m) == Cardinality(DOMAIN m.tiles)

\* MapLoader.get_tiles_at_zoom
MapLoader_get_tiles_at_zoom(m, zoom) ==
    IF zoom \in Zooms THEN m.tiles_by_zoom[zoom] ELSE <<>>

(***************************************************************************)
(* StatusDashboard (onboard/status.py).  SubsystemStatus objects live in   *)
(* heap and are named by their index there; _subsystems and the subsystems *)
(* of a snapshot are dicts from names to such objects.  fps is the         *)
(* fraction n / d.  cpu_temp_c and memory_mb, read from the operating      *)
(* system at the snapshot, are not represented.  snap is the snapshot the  *)
(* caller holds and seen what was read through it when it was taken; both  *)
(* are history, as are t (time.monotonic) and ops.                         *)
(***************************************************************************)
\* StatusDashboard.__init__ at time t.
Dash_new(t) ==
    [start_t |-> t, heap |-> <<>>, subsystems |-> <<>>,
     position_source |-> "none", fix_rate |-> 0, fps |-> [n |-> 0, d |-> 1],
     frame_times |-> <<>>, snap |-> None, seen |-> None,
     op |-> "init", t |-> t, ops |-> 0]

\* update of a name that is in _subsystems: the object is assigned in place.
Dash_update_known(d, name, ok, message, t) ==
    [d EXCEPT !.heap[d.subsystems[name]] =
                  [@ EXCEPT !.ok = ok, !.message = message, !.last_update_t = t]]

\* update of a new name: a new SubsystemStatus is stored under it.
Dash_update_new(d, name, ok, message, t) ==
    [d EXCEPT !.heap = Append(@, [name |-> name, ok |-> ok, message |-> message,
                                   last_update_t |-> t]),
              !.subsystems = [n \in DOMAIN d.subsystems \cup {name} |->
                                IF n = name THEN Len(d.heap) + 1 ELSE d.subsystems[n]]]

\* StatusDashboard.update
Dash_update(d, name, ok, message, t) ==
    IF name \in DOMAIN d.subsystems THEN Dash_update_known(d, name, ok, message, t)
    ELSE Dash_update_new(d, name, ok, message, t)

\* self._fps after record_frame, from the frame times kept.
Dash_fps(old, times) ==
    IF Len(times) >= 2 /\ times[Len(times)] - times[1] > 0
    THEN [n |-> Len(times) - 1, d |-> times[Len(times)] - times[1]]
    ELSE old

\* The frame times after the append: the last 50 once there are over 100.
Dash_frame_times(times) == IF Len(times) > 100 THEN LastN(times, 50) ELSE times

\* StatusDashboard.record_frame
Dash_record_frame(d, t) ==
    [d EXCEPT !.frame_times = Dash_frame_times(Append(@, t)),
              !.fps = Dash_fps(@, Dash_frame_times(Append(d.frame_times, t)))]

\* StatusDashboard.set_position_info
Dash_set_position_info(d, source, fix_rate) ==
    [d EXCEPT !.position_source = source, !.fix_rate = fix_rate]

\* StatusDashboard.snapshot: subsystems=dict(self._subsystems) is a new dict
\* holding the same SubsystemStatus objects.
Dash_snapshot(d, t) ==
    [timestamp |-> t, uptime_s |-> t - d.start_t, subsystems |-> d.subsystems,
     position_source |-> d.position_source, fix_rate |-> d.fix_rate, fps |-> d.fps]

\* What a reader sees through the snapshot s: its fields, and under each
\* name the fields of the object found there.
Dash_read(s, heap) ==
    [s EXCEPT !.subsystems = [n \in DOMAIN s.subsystems |-> heap[s.subsystems[n]]]]

(***************************************************************************)
(* Inputs of the model.                                                    *)
(***************************************************************************)
\* What a frame hands to PositionFusion.update: a visual position with its
\* hdop, or no position (hdop left at its default 2.0).
Frames ==
    {[visual |-> Some(GeoPoint(0, 0)), hdop |-> 20],
     [visual |-> Some(GeoPoint(1, 0)), hdop |-> 5],
     [visual |-> Some(GeoPoint(2, 1)), hdop |-> 20],
     [visual |-> Some(GeoPoint(300, 0)), hdop |-> 20],
     [visual |-> None, hdop |-> 20]}

\* The frames that carry a visual position.
Fixes == {f \in Frames : f.visual # None}

\* Seconds between one frame and the next: within max_dt, beyond max_dt,
\* beyond max_dead_reckoning_s.
Dts == {1, 6, 11}

\* Seconds between one call and the next when the filter is driven directly.
EkfDts == {-1, 0, 1, 6}

\* PositionFusion.__init__: no geofence (center None), or a circle of
\* radius_km = 1.0 around (0, 0) or around (300, 0), 3.3 km north of it.
FenceConfigs ==
    {None,
     Some([center |-> GeoPoint(0, 0), radius_m |-> 1000, margin_m |-> geofence_margin_m]),
     Some([center |-> GeoPoint(300, 0), radius_m |-> 1000, margin_m |-> geofence_margin_m])}

(***************************************************************************)
(* State machine of PositionFusion.                                        *)
(***************************************************************************)
NoOutput ==
    [position |-> None, hdop |-> 990, speed_mps |-> 0, fix_quality |-> 0,
     source |-> "none", geofence_ok |-> TRUE, ekf_accepted |-> FALSE]

NoCall ==
    [op |-> "new", visual |-> None, hdop |-> 0, t |-> 0,
     pre |-> EKF_new, pre_dr |-> None, pre_fence |-> Fence_new,
     branch |-> "none", accepted |-> FALSE,
     candidate |-> Fusion_no_candidate, ret |-> None]

NewSession ==
    [accepted |-> FALSE, visual_seen |-> FALSE, last_visual_t |-> 0,
     short_gaps |-> TRUE]

\* The components beside the positioning pipeline, and their state while a
\* specification does not use them.
others == <<loopVars, rateVars, uartVars, cacheVars, auxVars>>

\* The components below are not constructed.
NoMsp == [op |-> "none"]
NoAdaptive == [op |-> "none"]
NoMatcher == [pc |-> "none"]
NoMaps == [op |-> "none"]
NoDash == [op |-> "none"]

AuxIdle ==
    /\ rec = NoRecorder
    /\ msp = NoMsp
    /\ adapt = NoAdaptive
    /\ matcher = NoMatcher
    /\ maps = NoMaps
    /\ dash = NoDash

OthersIdle ==
    /\ loop = NoLoop
    /\ rl = NoLimiter
    /\ uart = NoUart
    /\ cache = NoCache
    /\ AuxIdle

Init ==
    /\ ekf = EKF_new
    /\ dr = None
    /\ fenceCfg \in FenceConfigs
    /\ fence = Fence_new
    /\ out = NoOutput
    /\ call = NoCall
    /\ session = NewSession
    /\ clock = 0
    /\ calls = 0
    /\ OthersIdle

\* One frame: output = fusion.update(visual_position, hdop, t).
Update(visual, hdop, dt) ==
    LET t == clock + dt
        r == PositionFusion_update(ekf, dr, fenceCfg, fence, visual, hdop, t)
    IN  /\ calls < MaxCalls
        /\ ekf' = r.ekf
        /\ dr' = r.dr
        /\ fence' = r.fence
        /\ out' = r.out
        /\ call' = [op |-> "update", visual |-> visual, hdop |-> hdop, t |-> t,
                    pre |-> ekf, pre_dr |-> dr, pre_fence |-> fence,
                    branch |-> r.branch, accepted |-> r.out.ekf_accepted,
                    candidate |-> r.candidate, ret |-> None]
        /\ session' =
              IF visual = None THEN session
              ELSE [accepted |-> session.accepted \/ r.out.ekf_accepted,
                    visual_seen |-> TRUE, last_visual_t |-> t,
                    short_gaps |-> /\ session.short_gaps
                                   /\ session.visual_seen
                                        => t - session.last_visual_t < max_dt]
        /\ clock' = t
        /\ calls' = calls + 1
        /\ UNCHANGED <<fenceCfg, others>>

\* fusion.reset()
Reset ==
    LET r == PositionFusion_reset(ekf, fenceCfg, fence)
    IN  /\ calls < MaxCalls
        /\ ekf' = r.ekf
        /\ dr' = r.dr
        /\ fence' = r.fence
        /\ call' = [NoCall EXCEPT !.op = "reset", !.t = clock, !.pre = ekf,
                                  !.pre_dr = dr, !.pre_fence = fence]
        /\ session' = NewSession
        /\ calls' = calls + 1
        /\ UNCHANGED <<fenceCfg, out, clock, others>>

Next ==
    \/ \E f \in Frames, dt \in Dts : Update(f.visual, f.hdop, dt)
    \/ Reset

Spec == Init /\ [][Next]_vars

(***************************************************************************)
(* State machine of a PositionEKF driven directly (as onboard/main.py      *)
(* does): update, predict and reset in any order.                          *)
(***************************************************************************)
InitEKF ==
    /\ ekf = EKF_new
    /\ dr = None
    /\ fenceCfg = None
    /\ fence = Fence_new
    /\ out = NoOutput
    /\ call = NoCall
    /\ session = NewSession
    /\ clock = 0
    /\ calls = 0
    /\ OthersIdle

\* accepted = ekf.update(measurement, hdop, t)
EkfUpdate(z, hdop, dt) ==
    LET t == clock + dt
        r == EKF_update(ekf, z, hdop, t)
    IN  /\ calls < MaxCalls
        /\ ekf' = r.ekf
        /\ call' = [NoCall EXCEPT !.op = "ekf_update", !.visual = Some(z),
                                  !.hdop = hdop, !.t = t, !.pre = ekf,
                                  !.branch = r.branch, !.accepted = r.accepted]
        /\ session' = [session EXCEPT !.accepted = @ \/ r.accepted,
                                      !.visual_seen = TRUE, !.last_visual_t = t]
        /\ clock' = t
        /\ calls' = calls + 1
        /\ UNCHANGED <<dr, fenceCfg, fence, out, others>>

\* ekf.predict(t)
EkfPredict(dt) ==
    LET t == clock + dt
    IN  /\ calls < MaxCalls
        /\ call' = [NoCall EXCEPT !.op = "ekf_predict", !.t = t, !.pre = ekf,
                                  !.ret = Some(EKF_predict(ekf, t))]
        /\ ekf' = EKF_after_predict(ekf, t)
        /\ clock' = t
        /\ calls' = calls + 1
        /\ UNCHANGED <<dr, fenceCfg, fence, out, session, others>>

\* ekf.reset()
EkfReset ==
    /\ calls < MaxCalls
    /\ ekf' = EKF_reset(ekf)
    /\ call' = [NoCall EXCEPT !.op = "ekf_reset", !.t = clock, !.pre = ekf]
    /\ session' = NewSession
    /\ calls' = calls + 1
    /\ UNCHANGED <<dr, fenceCfg, fence, out, clock, others>>

NextEKF ==
    \/ \E f \in Fixes, dt \in EkfDts : EkfUpdate(Get(f.visual), f.hdop, dt)
    \/ \E dt \in EkfDts : EkfPredict(dt)
    \/ EkfReset

SpecEKF == InitEKF /\ [][NextEKF]_vars

(***************************************************************************)
(* Properties of PositionFusion (checked under Spec).                      *)
(***************************************************************************)
\* The last call was PositionFusion.update, so out is what it returned.
Updated == call.op = "update"

\* The candidate selected for the tick lies outside the configured geofence.
CandidateOutside ==
    /\ fenceCfg # None
    /\ call.candidate.pos # None
    /\ ~CircleGeofence_contains(Get(fenceCfg), Get(call.candidate.pos))

\* C1: every FusionOutput with a position has geofence_ok true.
C1_PositionImpliesGeofenceOk ==
    out.position # None => out.geofence_ok

\* A position was returned after the geofence was asked and said inside.
C1_Witness ==
    /\ Updated /\ fenceCfg # None
    /\ fence.total_checks > call.pre_fence.total_checks
    /\ out.position # None /\ out.geofence_ok

\* C2: every FusionOutput without a position has fix_quality 0 and source "none".
C2_NoPositionImpliesNoFix ==
    out.position = None => out.fix_quality = 0 /\ out.source = "none"

\* A candidate with a source of its own was suppressed.
C2_Witness ==
    /\ Updated /\ call.candidate.source = "ekf_predict"
    /\ out.position = None /\ ~out.geofence_ok

\* C3: a candidate outside the configured geofence, whatever its source, is
\* returned as position None, fix_quality 0, source "none", geofence_ok false.
C3_OutsideCandidateSuppressed ==
    Updated /\ CandidateOutside =>
        /\ out.position = None
        /\ out.fix_quality = 0
        /\ out.source = "none"
        /\ ~out.geofence_ok

\* A dead-reckoning candidate outside the fence.
C3_Witness ==
    /\ Updated /\ CandidateOutside
    /\ call.candidate.source = "dead_reckoning"
    /\ out.position = None

\* C4: an update with a visual position that the geofence does not suppress
\* returns source "visual", fix_quality 1, the hdop passed in and the filter's
\* position, and the dead-reckoning reference is the filter's position and
\* velocity at time t; also when the filter rejected the measurement.
C4_VisualTickOutput ==
    Updated /\ call.visual # None /\ out.geofence_ok =>
        /\ out.source = "visual"
        /\ out.fix_quality = 1
        /\ out.hdop = call.hdop
        /\ out.position = Some(EKF_position(ekf))
        /\ dr # None
        /\ Get(dr).last_fix = EKF_position(ekf)
        /\ Get(dr).last_fix_time = call.t
        /\ Get(dr).velocity_north_mps = EKF_velocity_mps(ekf).vn
        /\ Get(dr).velocity_east_mps = EKF_velocity_mps(ekf).ve
        /\ Get(dr).base_hdop = call.hdop

\* A visual tick whose measurement the filter rejected, with the filter moving.
C4_Witness ==
    /\ Updated /\ call.visual # None /\ out.geofence_ok
    /\ call.branch = "rejected" /\ ~out.ekf_accepted
    /\ out.source = "visual"

\* C5: an update without a visual position on an initialized filter selects
\* the filter's prediction and, unless the geofence suppresses it, returns
\* source "ekf_predict", fix_quality 2, hdop 3.0.
C5_PredictTickOutput ==
    Updated /\ call.visual = None /\ call.pre.initialized =>
        /\ call.candidate.pos = Some(EKF_predict(call.pre, call.t))
        /\ call.candidate.source = "ekf_predict"
        /\ out.geofence_ok =>
              /\ out.source = "ekf_predict"
              /\ out.fix_quality = 2
              /\ out.hdop = 30

\* C6: without a visual position and more than max_dt after the filter's last
\* update, no EKF prediction is reported: a dead-reckoning position while the
\* last visual fix is at most max_dead_reckoning_s old, no fix after that.
C6_StaleFilterFallsBack ==
    Updated /\ call.visual = None /\ call.pre.initialized
            /\ call.t - call.pre.last_t > max_dt =>
        /\ out.source # "ekf_predict"
        /\ (/\ call.pre_dr # None
            /\ call.t - Get(call.pre_dr).last_fix_time <= max_dead_reckoning_s
            /\ out.geofence_ok)
              => out.source = "dead_reckoning" /\ out.fix_quality = 3
        /\ (call.pre_dr # None
            /\ call.t - Get(call.pre_dr).last_fix_time > max_dead_reckoning_s)
              => out.fix_quality = 0

\* C7: while every gap between consecutive visual fixes is shorter than
\* max_dt, no update returns "dead_reckoning"; an unsuppressed tick returns
\* "visual" with a visual position and "ekf_predict" without one (once the
\* session has had a visual fix).
C7_NoDeadReckoningWithShortGaps ==
    Updated /\ session.short_gaps =>
        /\ out.source # "dead_reckoning"
        /\ call.visual # None /\ out.geofence_ok => out.source = "visual"
        /\ call.visual = None /\ session.visual_seen /\ out.geofence_ok
              => out.source = "ekf_predict"

(***************************************************************************)
(* Properties of PositionEKF (checked under SpecEKF).                      *)
(***************************************************************************)
\* The last call was a gated PositionEKF.update: the filter was initialized
\* and its timestamp at most max_dt old.
GatedUpdate ==
    /\ call.op = "ekf_update"
    /\ call.pre.initialized
    /\ call.t - call.pre.last_t <= max_dt

\* The constant-velocity prediction of the last call, from the state before it.
CallXPred == EKF_x_pred(call.pre, EKF_dt(call.pre, call.t))
CallPPred == EKF_P_pred(call.pre, EKF_dt(call.pre, call.t))

\* The squared Mahalanobis distance of the last call exceeds the gate.
CallGateExceeded ==
    EKF_gate_exceeded(EKF_y2(CallXPred, Get(call.visual)),
                      EKF_S(CallPPred, call.hdop))

\* C8: a gated update beyond the gate threshold returns false, leaves state
\* and covariance at the prediction to time t, sets the timestamp to t and
\* leaves the filter initialized.
C8_RejectedIsPrediction ==
    GatedUpdate /\ CallGateExceeded =>
        /\ ~call.accepted
        /\ ekf.lat = CallXPred.lat /\ ekf.lon = CallXPred.lon
        /\ ekf.vlat = call.pre.vlat /\ ekf.vlon = call.pre.vlon
        /\ ekf.pp = CallPPred.pp /\ ekf.pv = CallPPred.pv /\ ekf.vv = CallPPred.vv
        /\ ekf.last_t = call.t
        /\ ekf.initialized

\* An outlier rejected while the filter was moving: the state advanced.
C8_Witness ==
    /\ GatedUpdate /\ CallGateExceeded
    /\ call.pre.vlat # 0
    /\ ekf.lat # call.pre.lat
    /\ ekf.pp > call.pre.pp

\* C9: the filter is initialized exactly when a measurement has been accepted
\* since construction or the last reset.
C9_InitializedIffAccepted ==
    ekf.initialized <=> session.accepted

\* An update after a reset that followed an earlier update.
C9_Witness ==
    /\ call.op = "ekf_update" /\ call.branch = "init"
    /\ calls >= 3
    /\ ekf.initialized /\ session.accepted

\* C10: an update more than max_dt after the filter's timestamp re-initializes
\* the filter from the measurement: position the measurement, velocity zero,
\* timestamp t, covariance as on a first call, accepted without gating.
C10_LongGapReinitializes ==
    /\ call.op = "ekf_update"
    /\ call.pre.initialized
    /\ call.t - call.pre.last_t > max_dt
    =>  /\ call.accepted
        /\ EKF_position(ekf) = Get(call.visual)
        /\ ekf.vlat = 0 /\ ekf.vlon = 0
        /\ ekf.last_t = call.t
        /\ ekf.initialized
        /\ ekf.gate = 0
        /\ ekf.pp = RDiv(measurement_noise * call.hdop, 10)
        /\ ekf.pv = 0
        /\ ekf.vv = process_noise_vel * 10

\* A measurement after a long gap that the gate would have rejected.
C10_Witness ==
    /\ call.op = "ekf_update" /\ call.pre.initialized
    /\ call.t - call.pre.last_t > max_dt
    /\ CallGateExceeded
    /\ call.accepted

(***************************************************************************)
(* State machine of the frame loop of main() (onboard/main.py), from the   *)
(* first evaluation of "while _running" to the end of the finally block.   *)
(* The loop drives the PositionEKF in ekf directly.                        *)
(***************************************************************************)
MaxFrames == 3

\* The positioning pipeline at rest, for the specifications that do not use it.
FusionIdle ==
    /\ ekf = EKF_new
    /\ dr = None
    /\ fenceCfg = None
    /\ fence = Fence_new
    /\ out = NoOutput
    /\ call = NoCall
    /\ session = NewSession
    /\ clock = 0
    /\ calls = 0

\* What _try_match_frame returns: a position with its hdop, or None with 0.0.
LoopFrames ==
    {[visual |-> Some(GeoPoint(1, 0)), hdop |-> 5],
     [visual |-> Some(GeoPoint(300, 0)), hdop |-> 20],
     [visual |-> None, hdop |-> 0]}

\* Seconds the stages of a tick take: within the period, or beyond max_dt.
LoopElapsed == {0, 6}

\* Sentences serial.write takes before it raises; 2 is both.
LoopWritten == {0, 1, 2}

InitLoop ==
    /\ FusionIdle
    /\ loop \in {Main_started(u, t) : u \in BOOLEAN, t \in BOOLEAN}
    /\ rl = NoLimiter
    /\ uart = NoUart
    /\ cache = NoCache
    /\ AuxIdle

loopRest == <<dr, fenceCfg, fence, out, call, session, calls, rateVars, uartVars, cacheVars,
              auxVars>>

\* SIGINT or SIGTERM: the handler runs between two steps of the loop.
Signal ==
    /\ loop.pc \in {"top", "match", "send", "telemetry", "sleep", "sleeping", "finally"}
    /\ loop.running
    /\ loop' = Main_signal_handler(loop)
    /\ UNCHANGED <<ekf, clock, loopRest>>

\* while _running: false.
LoopExit ==
    /\ loop.pc = "top"
    /\ ~Main_keeps_running(loop)
    /\ loop' = Main_loop_exit(loop)
    /\ UNCHANGED <<ekf, clock, loopRest>>

\* A tick whose camera.grab() fails: 0.9 s in grab, 100 ms of sleep.
LoopGrabFailed ==
    /\ loop.pc = "top"
    /\ Main_keeps_running(loop)
    /\ loop.frame_num < MaxFrames
    /\ loop' = Main_grab_failed(loop, clock)
    /\ clock' = clock + 1
    /\ UNCHANGED <<ekf, loopRest>>

\* A tick whose camera.grab() gives a frame.
LoopGrabbed ==
    /\ loop.pc = "top"
    /\ Main_keeps_running(loop)
    /\ loop.frame_num < MaxFrames
    /\ loop' = Main_grabbed(loop, clock)
    /\ UNCHANGED <<ekf, clock, loopRest>>

\* _try_match_frame found a position: ekf.update, fixes += 1.
LoopMatched(position, hdop) ==
    LET r == EKF_update(ekf, Get(position), hdop, loop.t0)
    IN  /\ loop.pc = "match"
        /\ ekf' = r.ekf
        /\ loop' = Main_matched(loop, position, hdop, r.accepted)
        /\ UNCHANGED <<clock, loopRest>>

\* _try_match_frame found nothing: misses += 1.
LoopMissed ==
    /\ loop.pc = "match"
    /\ loop' = Main_matched(loop, None, 0, FALSE)
    /\ UNCHANGED <<ekf, clock, loopRest>>

\* The NMEA output of the tick.
LoopSend(written) ==
    /\ loop.pc = "send"
    /\ loop' = Main_send(loop, Main_fix(loop, ekf), written)
    /\ UNCHANGED <<ekf, clock, loopRest>>

\* The telemetry record of the tick.
LoopTelemetry ==
    /\ loop.pc = "telemetry"
    /\ loop' = Main_telemetry(loop)
    /\ UNCHANGED <<ekf, clock, loopRest>>

\* The tail of the tick: the stages took elapsed seconds; the sleep of the
\* rest begins, or the tick is over.
LoopSleep(elapsed) ==
    /\ loop.pc = "sleep"
    /\ loop' = Main_rate_limit(loop, elapsed * 1000)
    /\ clock' = clock + elapsed
    /\ UNCHANGED <<ekf, loopRest>>

\* The tail sleep is over: the period has elapsed.
LoopSleepReturned ==
    /\ loop.pc = "sleeping"
    /\ loop' = Main_sleep_returned(loop)
    /\ clock' = loop.t0 + 1
    /\ UNCHANGED <<ekf, loopRest>>

\* The finally block.
LoopFinally ==
    /\ loop.pc = "finally"
    /\ loop' = Main_finally(loop)
    /\ UNCHANGED <<ekf, clock, loopRest>>

NextLoop ==
    \/ Signal
    \/ LoopExit
    \/ LoopGrabFailed
    \/ LoopGrabbed
    \/ \E f \in LoopFrames : f.visual # None /\ LoopMatched(f.visual, f.hdop)
    \/ LoopMissed
    \/ \E written \in LoopWritten : LoopSend(written)
    \/ LoopTelemetry
    \/ \E elapsed \in LoopElapsed : LoopSleep(elapsed)
    \/ LoopSleepReturned
    \/ LoopFinally

SpecLoop == InitLoop /\ [][NextLoop]_vars

(***************************************************************************)
(* Properties of the frame loop (checked under SpecLoop).                  *)
(***************************************************************************)
\* C11: a failed serial write is handled inside the tick: after it the loop
\* is still in the tick or at the top of the next one.
C11_WriteFailureKeepsLooping ==
    loop.step = "write_failed" => loop.pc \in {"telemetry", "sleep", "top"}

\* C12: once the shutdown signal has cleared the flag no further tick starts
\* (the frame number stays what it was when the signal arrived), the loop is
\* left without an exception only with the flag cleared, and when main has
\* ended the camera is closed, the transport closed and the recorder stopped.
C12_ShutdownDrains ==
    /\ ~loop.running => loop.frame_num = loop.signal_frame
    /\ loop.pc \in {"finally", "returned"} /\ ~loop.raised => ~loop.running
    /\ loop.pc \in {"returned", "raised"} =>
          /\ loop.camera = "closed"
          /\ loop.uart \in {"none", "closed"}
          /\ loop.telemetry \in {"none", "stopped"}

\* The signal arrived while a tick was sending; the tick went on to log its
\* record, and main returned with transport and recorder closed.
C12_Witness ==
    /\ loop.pc = "returned"
    /\ loop.signal_pc = "send"
    /\ loop.frame_num >= 2
    /\ loop.rows = loop.at_top.rows + 1
    /\ loop.uart = "closed" /\ loop.telemetry = "stopped"

\* C13: a failed grab sleeps 100 ms, counts a miss, runs no further stage of
\* the tick (no fix counted, nothing sent, nothing logged) and goes back to
\* the top of the loop.
C13_GrabFailureIsMiss ==
    loop.step = "grab_failed" =>
        /\ loop.slept_ms = grab_retry_sleep_ms
        /\ loop.misses = loop.at_top.misses + 1
        /\ loop.fixes = loop.at_top.fixes
        /\ loop.writes = loop.at_top.writes
        /\ loop.rows = loop.at_top.rows
        /\ loop.pc = "top"

(***************************************************************************)
(* State machine of a RateLimiter called at a uniform rate                 *)
(* (onboard/rate_limiter.py).                                              *)
(***************************************************************************)
MaxAllowCalls == 125

\* RateLimiter(max_hz, burst) with the input rate as a multiple of max_hz:
\* 20 calls per second at max_hz = 5, and ten times max_hz.
RateConfigs ==
    {[max_hz |-> 5, burst |-> 1, per_token |-> 4],
     [max_hz |-> 2, burst |-> 1, per_token |-> 10],
     [max_hz |-> 5, burst |-> 2, per_token |-> 10],
     [max_hz |-> 5, burst |-> 3, per_token |-> 10],
     [max_hz |-> 5, burst |-> 0, per_token |-> 10]}

\* The timestamps of a run: from 0.0 or from a later time with increments
\* that add up exactly, or from a later time with sums that fall short.
RateRuns ==
    {[start |-> 0, short |-> FALSE],
     [start |-> 1, short |-> FALSE],
     [start |-> 1, short |-> TRUE]}

InitRate ==
    /\ FusionIdle
    /\ loop = NoLoop
    /\ rl \in {RL_new(c.max_hz, c.burst, c.per_token, run.short, run.start) :
                 c \in RateConfigs, run \in RateRuns}
    /\ uart = NoUart
    /\ cache = NoCache
    /\ AuxIdle

\* limiter.allow(t) at the next timestamp of the uniform input.
RlAllow ==
    /\ rl.stats.total_requests < MaxAllowCalls
    /\ rl' = [RL_allow(rl, rl.next_t) EXCEPT !.next_t = @ + 1]
    /\ UNCHANGED <<fusionVars, loopVars, uartVars, cacheVars, auxVars>>

NextRate == RlAllow

SpecRate == InitRate /\ [][NextRate]_vars

(***************************************************************************)
(* Properties of RateLimiter (checked under SpecRate).                     *)
(***************************************************************************)
\* The run is the scenario max_hz = 5, burst = 1, allow(t) at t = 0, 0.05,
\* 0.10, ... (one call every 0.05 s, a quarter of a token period), with
\* timestamps whose increments add up exactly.
SteadyScenario ==
    /\ rl.max_hz = 5 /\ rl.burst = 1 /\ rl.per_token = 4
    /\ rl.start_t = 0 /\ ~rl.short
    /\ rl.stats.total_requests <= 21

\* C14: in that scenario the first call is admitted, every admission comes
\* 0.2 s (4 calls) after the one before it, and the 21 calls up to t = 1.00
\* give 5 or 6 admissions.
C14_SteadyAdmissions ==
    SteadyScenario =>
        /\ rl.stats.total_requests >= 1 =>
              Len(rl.accept_times) >= 1 /\ rl.accept_times[1] = 0
        /\ \A i \in 1..(Len(rl.accept_times) - 1) :
              rl.accept_times[i + 1] - rl.accept_times[i] = 4
        /\ rl.stats.total_requests = 21 => rl.stats.accepted \in {5, 6}

\* floor(H * T + B) for n calls at ten calls per token period, when the n
\* calls are taken to span n spacings (T = n / (10 H)), and n - 1 spacings.
ExpectedAdmitted == (rl.stats.total_requests + rl.burst * 10) \div 10
ExpectedAdmittedBetween == (rl.stats.total_requests - 1 + rl.burst * 10) \div 10

\* a is e plus or minus 1.
WithinOne(a, e) == a >= e - 1 /\ a <= e + 1

\* C15: at ten times max_hz, with burst at least 1 and at least as many
\* calls as the expected admissions, the admitted calls are
\* floor(H * T + B) plus or minus 1 (for one of the two ways of counting T).
C15_ThrottledThroughput ==
    /\ rl.per_token = 10
    /\ rl.burst >= 1
    /\ rl.stats.total_requests >= 1
    /\ rl.stats.total_requests >= ExpectedAdmitted
    =>  \/ WithinOne(rl.stats.accepted, ExpectedAdmitted)
        \/ WithinOne(rl.stats.accepted, ExpectedAdmittedBetween)

(***************************************************************************)
(* State machine of a UARTManager (onboard/uart_manager.py): open, close   *)
(* and send, the send one loop iteration at a time; the port accepts or    *)
(* fails each open and each write.                                         *)
(***************************************************************************)
MaxSends == 2

\* UARTManager(max_retries=...)
UartRetries == {0, 1, 3}

\* len(data)
UartLens == {5}

\* What write and flush do in one attempt.
UartWrites == {"ok", "write_raised", "flush_raised"}

InitUart ==
    /\ FusionIdle
    /\ loop = NoLoop
    /\ rl = NoLimiter
    /\ uart \in {UART_new(m) : m \in UartRetries}
    /\ cache = NoCache
    /\ AuxIdle

\* uart.open() outside a send.
UartOpen(ok) ==
    /\ uart.pc = "idle"
    /\ uart' = [UART_open(uart, ok) EXCEPT !.log = uart.log]
    /\ UNCHANGED <<fusionVars, loopVars, rateVars, cacheVars, auxVars>>

\* uart.close() outside a send.
UartClose(closeOk) ==
    /\ uart.pc = "idle"
    /\ uart' = [UART_close(uart, closeOk) EXCEPT !.log = uart.log]
    /\ UNCHANGED <<fusionVars, loopVars, rateVars, cacheVars, auxVars>>

\* uart.send(data, t) is entered.
UartSendBegin(len) ==
    /\ uart.pc = "idle"
    /\ uart.sends < MaxSends
    /\ uart' = UART_send_begin(uart, len, uart.sends + 1)
    /\ UNCHANGED <<fusionVars, loopVars, rateVars, cacheVars, auxVars>>

\* One iteration of the loop of send.
UartAttempt(openOk, closeOk, w) ==
    /\ uart.pc = "attempt"
    /\ uart' = UART_attempt(uart, openOk, closeOk, w)
    /\ UNCHANGED <<fusionVars, loopVars, rateVars, cacheVars, auxVars>>

NextUart ==
    \/ \E ok \in BOOLEAN : UartOpen(ok)
    \/ \E closeOk \in BOOLEAN : UartClose(closeOk)
    \/ \E len \in UartLens : UartSendBegin(len)
    \/ \E openOk \in BOOLEAN, closeOk \in BOOLEAN, w \in UartWrites :
          UartAttempt(openOk, closeOk, w)

SpecUart == InitUart /\ [][NextUart]_vars

(***************************************************************************)
(* Properties of UARTManager (checked under SpecUart).                     *)
(***************************************************************************)
\* The write attempts among the events of a send.
IsWrite(ev) == ev \in {"write_ok", "write_failed"}

\* The events of the send after event number i.
LogAfter(i) == SubSeq(uart.log, i + 1, Len(uart.log))

\* What follows a failed write: nothing (it was the last attempt); the sleep
\* alone (the next iteration has not run yet); or sleep, close, the
\* reconnect count and the reopening, and after a successful reopening the
\* next write.
RetriedProperly(tail) ==
    \/ tail = <<>>
    \/ tail = <<"sleep">> /\ uart.pc = "attempt"
    \/ /\ Len(tail) >= 4
       /\ SubSeq(tail, 1, 3) = <<"sleep", "close", "reconnect">>
       /\ tail[4] \in {"open_ok", "open_failed"}
       /\ Len(tail) = 4 => (tail[4] = "open_failed" /\ uart.pc = "idle" /\ ~uart.ret)
       /\ Len(tail) >= 5 => (tail[4] = "open_ok" /\ IsWrite(tail[5]))

\* C16: a send makes at most max_retries + 1 write attempts; a successful
\* write is the last event of the send, which returns true, and a send that
\* returns true ends with a successful write; after every failed write the
\* port is closed, the reconnect counter incremented and the port reopened
\* before the next write attempt.
C16_SendRetries ==
    /\ Len(SelectSeq(uart.log, IsWrite)) <= uart.max_retries + 1
    /\ \A i \in 1..Len(uart.log) :
          /\ uart.log[i] = "write_ok" =>
                i = Len(uart.log) /\ uart.pc = "idle" /\ uart.ret
          /\ uart.log[i] = "write_failed" => RetriedProperly(LogAfter(i))
    /\ uart.pc = "idle" /\ uart.sends > 0 /\ uart.ret =>
          Len(uart.log) > 0 /\ uart.log[Len(uart.log)] = "write_ok"
    /\ uart.stats.reconnects =
          uart.pre_reconnects
            + Len(SelectSeq(uart.log, LAMBDA ev : ev = "reconnect"))

\* A send that failed three times and succeeded at the fourth write, the
\* port reopened three times on the way.
C16_Witness ==
    /\ uart.pc = "idle" /\ uart.ret
    /\ uart.max_retries = 3
    /\ Len(SelectSeq(uart.log, IsWrite)) = 4
    /\ Len(SelectSeq(uart.log, LAMBDA ev : ev = "write_failed")) = 3
    /\ uart.stats.reconnects = uart.pre_reconnects + 3
    /\ uart.stats.messages_sent >= 1

(***************************************************************************)
(* State machine of a TileCache (onboard/tile_cache.py): get and clear in  *)
(* any order; a file is readable or not at each get.                       *)
(***************************************************************************)
MaxCacheOps == 5

\* TileCache(max_tiles=...)
CacheSizes == {0, 1, 2}

InitCache ==
    /\ FusionIdle
    /\ loop = NoLoop
    /\ rl = NoLimiter
    /\ uart = NoUart
    /\ cache \in {TC_new(m) : m \in CacheSizes}
    /\ AuxIdle

\* The history after a get: its number, the keys' last use, the call.
TC_recorded(c, pre, key, ret) ==
    [c EXCEPT !.ops = pre.ops + 1,
              !.used = IF ret = "none" THEN @ ELSE [@ EXCEPT ![key] = pre.ops + 1],
              !.last = [op |-> "get", key |-> key, ret |-> ret,
                        pre_order |-> pre.order, pre_used |-> pre.used]]

\* cache.get(path)
CacheGet(key, readable) ==
    /\ cache.ops < MaxCacheOps
    /\ cache' = TC_recorded(TC_get(cache, key, readable), cache, key,
                            TC_get_result(cache, key, readable))
    /\ UNCHANGED <<fusionVars, loopVars, rateVars, uartVars, auxVars>>

\* cache.clear()
CacheClear ==
    /\ cache' = [TC_clear(cache) EXCEPT
                   !.last = [op |-> "clear", key |-> "", ret |-> "none",
                             pre_order |-> cache.order, pre_used |-> cache.used]]
    /\ UNCHANGED <<fusionVars, loopVars, rateVars, uartVars, auxVars>>

NextCache ==
    \/ \E key \in Paths, readable \in BOOLEAN : CacheGet(key, readable)
    \/ CacheClear

SpecCache == InitCache /\ [][NextCache]_vars

(***************************************************************************)
(* Properties of TileCache (checked under SpecCache).                      *)
(***************************************************************************)
\* The entries the last get removed: cached before it or inserted by it, and
\* not cached after it.
Evicted ==
    (TC_keys(cache.last.pre_order) \cup {cache.last.key}) \ TC_keys(cache.order)

\* C17: a get of a cached path leaves that entry last in line for eviction
\* and the other entries in their order; the cache's order is the order of
\* last use, counting hits and inserts; a get that loads a tile into a full
\* cache evicts exactly one entry, and no entry was used longer ago than it.
C17_LruOrder ==
    /\ \A i, j \in 1..Len(cache.order) :
          i < j => cache.used[cache.order[i]] < cache.used[cache.order[j]]
    /\ cache.last.op = "get" /\ cache.last.ret = "hit" =>
          /\ cache.order[Len(cache.order)] = cache.last.key
          /\ \A k \in TC_keys(cache.order) : cache.used[k] <= cache.used[cache.last.key]
          /\ SelectSeq(cache.order, LAMBDA k : k # cache.last.key)
               = SelectSeq(cache.last.pre_order, LAMBDA k : k # cache.last.key)
          /\ TC_keys(cache.order) = TC_keys(cache.last.pre_order)
    /\ (/\ cache.last.op = "get" /\ cache.last.ret = "loaded"
        /\ Len(cache.last.pre_order) = cache.max)
          => /\ Cardinality(Evicted) = 1
             /\ \A e \in Evicted :
                   \A k \in TC_keys(cache.last.pre_order) \cup {cache.last.key} :
                      cache.used[e] <= cache.used[k]

\* a and b were loaded, a was hit, then c was loaded into the full cache:
\* b, inserted after a but used before it, was evicted.
C17_Witness ==
    /\ cache.max = 2 /\ cache.ops = 4 /\ cache.hits = 1
    /\ cache.last.op = "get" /\ cache.last.ret = "loaded" /\ cache.last.key = "c"
    /\ cache.last.pre_order = <<"b", "a">>
    /\ cache.last.pre_used["a"] = 3 /\ cache.last.pre_used["b"] = 2
    /\ cache.order = <<"a", "c">>
    /\ Evicted = {"b"}

\* C18: the cache never holds more than max_tiles entries.
C18_SizeBounded == Len(cache.order) <= cache.max

\* A full cache after a get of an unreadable path, earlier gets having
\* loaded more tiles than the cache holds.
C18_Witness ==
    /\ cache.max = 2 /\ Len(cache.order) = 2
    /\ cache.last.op = "get" /\ cache.last.ret = "none"
    /\ cache.misses >= 4

(***************************************************************************)
(* State machine of a DeadReckoning driven directly                        *)
(* (onboard/dead_reckoning.py): update_reference and extrapolate at any    *)
(* times, also times before the reference.                                 *)
(***************************************************************************)
\* Timestamps of the calls: 10 s after 1 is the end of the window, 11 and 12
\* lie beyond it for the earlier ones.
DrTimes == {0, 1, 5, 11, 12}

\* References: position, velocity north and east (dm/s), hdop.
DrRefs ==
    {[position |-> GeoPoint(0, 0), vn |-> 0, ve |-> 0, hdop |-> 20],
     [position |-> GeoPoint(1, 0), vn |-> 111, ve |-> 0, hdop |-> 5],
     [position |-> GeoPoint(1, 0), vn |-> 0, ve |-> -111, hdop |-> 20]}

InitDR ==
    /\ FusionIdle
    /\ OthersIdle

\* dr.update_reference(position, vn, ve, hdop, t)
DrUpdateReference(ref, t) ==
    /\ calls < MaxCalls
    /\ dr' = DR_update_reference(ref.position, ref.vn, ref.ve, ref.hdop, t)
    /\ call' = [NoCall EXCEPT !.op = "dr_update_reference", !.t = t,
                              !.hdop = ref.hdop, !.pre_dr = dr]
    /\ calls' = calls + 1
    /\ UNCHANGED <<ekf, fenceCfg, fence, out, session, clock, others>>

\* dr.extrapolate(t)
DrExtrapolate(t) ==
    /\ calls < MaxCalls
    /\ dr' = DR_state_after_extrapolate(dr, t)
    /\ call' = [NoCall EXCEPT !.op = "dr_extrapolate", !.t = t, !.pre_dr = dr,
                              !.ret = DR_extrapolate(dr, t)]
    /\ calls' = calls + 1
    /\ UNCHANGED <<ekf, fenceCfg, fence, out, session, clock, others>>

NextDR ==
    \/ \E ref \in DrRefs, t \in DrTimes : DrUpdateReference(ref, t)
    \/ \E t \in DrTimes : DrExtrapolate(t)

SpecDR == InitDR /\ [][NextDR]_vars

(***************************************************************************)
(* Properties of DeadReckoning (checked under SpecDR).                     *)
(***************************************************************************)
\* Seconds from the reference of the last call to its time t.
CallDrDt == call.t - Get(call.pre_dr).last_fix_time

\* max_extrapolation_s of the reference of the last call.
CallDrMax == Get(call.pre_dr).max_extrapolation_s

\* t lies in the extrapolation window of the reference d.
InWindow(d, t) ==
    /\ t - Get(d).last_fix_time >= 0
    /\ t - Get(d).last_fix_time <= Get(d).max_extrapolation_s

\* C19: extrapolate(t) returns None without a reference, for t before the
\* reference time and for t more than max_extrapolation_s (10 s) after it;
\* within the window it returns a position with hdop = base_hdop +
\* hdop_growth_rate * (t - t_ref) (1.0 per second), so a later t of the
\* window has a strictly larger hdop; the reference is left as it was.
C19_ExtrapolateWindow ==
    /\ call.op = "dr_extrapolate" =>
          /\ dr = call.pre_dr
          /\ call.pre_dr = None => call.ret = None
          /\ call.pre_dr # None =>
                /\ (CallDrDt < 0 \/ CallDrDt > CallDrMax) => call.ret = None
                /\ (CallDrDt >= 0 /\ CallDrDt <= CallDrMax) =>
                      /\ call.ret # None
                      /\ Get(call.ret).hdop = Get(call.pre_dr).base_hdop + 10 * CallDrDt
    /\ dr # None =>
          \A t1, t2 \in DrTimes :
             (t1 < t2 /\ InWindow(dr, t1) /\ InWindow(dr, t2)) =>
                /\ DR_extrapolate(dr, t1) # None /\ DR_extrapolate(dr, t2) # None
                /\ Get(DR_extrapolate(dr, t2)).hdop > Get(DR_extrapolate(dr, t1)).hdop

\* An extrapolation exactly max_extrapolation_s after a moving reference.
C19_Witness ==
    /\ call.op = "dr_extrapolate" /\ call.pre_dr # None
    /\ CallDrDt = 10
    /\ call.ret # None
    /\ Get(call.ret).hdop = Get(call.pre_dr).base_hdop + 100
    /\ Get(call.ret).pos # Get(call.pre_dr).last_fix

(***************************************************************************)
(* State machine of a GeofenceChecker driven directly                      *)
(* (onboard/geofence.py): check and reset in any order.  session keeps the *)
(* results of the checks since construction or the last reset.             *)
(***************************************************************************)
MaxChecks == 6

\* The points checked: the two fence centres and a point 0.0001 deg north
\* of the first.
FencePoints == {GeoPoint(0, 0), GeoPoint(1, 0), GeoPoint(300, 0)}

InitFence ==
    /\ ekf = EKF_new
    /\ dr = None
    /\ fenceCfg \in FenceConfigs \ {None}
    /\ fence = Fence_new
    /\ out = NoOutput
    /\ call = NoCall
    /\ session = [results |-> <<>>]
    /\ clock = 0
    /\ calls = 0
    /\ OthersIdle

\* checker.check(point)
FenceCheck(point) ==
    LET inside == CircleGeofence_contains(Get(fenceCfg), point)
    IN  /\ fence.total_checks < MaxChecks
        /\ fence' = Fence_check(fence, inside)
        /\ call' = [NoCall EXCEPT !.op = "fence_check", !.visual = Some(point),
                                  !.pre_fence = fence, !.accepted = inside]
        /\ session' = [results |-> Append(session.results, inside)]
        /\ UNCHANGED <<ekf, dr, fenceCfg, out, clock, calls, others>>

\* checker.reset()
FenceReset ==
    /\ fence' = Fence_new
    /\ call' = [NoCall EXCEPT !.op = "fence_reset", !.pre_fence = fence]
    /\ session' = [results |-> <<>>]
    /\ UNCHANGED <<ekf, dr, fenceCfg, out, clock, calls, others>>

NextFence ==
    \/ \E point \in FencePoints : FenceCheck(point)
    \/ FenceReset

SpecFence == InitFence /\ [][NextFence]_vars

(***************************************************************************)
(* Properties of GeofenceChecker (checked under SpecFence).                *)
(***************************************************************************)
\* The number of the last inside check since the last reset, 0 if none.
LastInside ==
    LET S == {0} \cup {i \in 1..Len(session.results) : session.results[i]}
    IN  CHOOSE m \in S : \A x \in S : x <= m

\* The outside checks since the last inside check or reset.
OutsideRun == Len(session.results) - LastInside

\* C20: an inside check sets the consecutive count to 0, an outside check
\* adds 1 to it, so that it counts the outside checks since the last inside
\* check; is_breached holds exactly when that count is at least 5.
C20_ConsecutiveViolations ==
    /\ call.op = "fence_check" /\ call.accepted =>
          fence.consecutive_violations = 0
    /\ call.op = "fence_check" /\ ~call.accepted =>
          fence.consecutive_violations = call.pre_fence.consecutive_violations + 1
    /\ fence.consecutive_violations = OutsideRun
    /\ Fence_is_breached(fence) <=> OutsideRun >= 5

\* Breached by five outside checks that followed an inside check.
C20_Witness ==
    /\ call.op = "fence_check"
    /\ Len(session.results) = 6 /\ session.results[1]
    /\ fence.consecutive_violations = 5
    /\ Fence_is_breached(fence)
    /\ call.pre_fence.consecutive_violations = 4
    /\ ~Fence_is_breached(call.pre_fence)

(***************************************************************************)
(* State machine of a FlightRecorder and the file at its path              *)
(* (onboard/flight_recorder.py): start, record and stop in any order, and  *)
(* other files put at the path while the recorder is not recording.        *)
(***************************************************************************)
MaxRecords == 3

\* The records passed to record(): all zero; float fields a single holds
\* exactly, integer fields at their largest; float fields a single rounds
\* (down, and a tie to the even neighbour).
SampleRecords ==
    {[timestamp |-> 0, lat |-> 0, lon |-> 0, vn_mps |-> 0, ve_mps |-> 0, hdop |-> 0,
      speed_mps |-> 0, heading_deg |-> 0, fix_quality |-> 0, source |-> 0,
      match_count |-> 0, inlier_ratio |-> 0, latency_ms |-> 0, flags |-> 0],
     [timestamp |-> 1, lat |-> 123456789, lon |-> 5, vn_mps |-> SingleStep,
      ve_mps |-> 2 * SingleStep, hdop |-> SingleStep, speed_mps |-> 0,
      heading_deg |-> 3 * SingleStep, fix_quality |-> 255, source |-> 3,
      match_count |-> 65535, inlier_ratio |-> SingleStep, latency_ms |-> 300, flags |-> 3],
     [timestamp |-> 2, lat |-> 5, lon |-> 1, vn_mps |-> 1, ve_mps |-> 0, hdop |-> 805306368,
      speed_mps |-> SingleStep + 7, heading_deg |-> 0, fix_quality |-> 1, source |-> 1,
      match_count |-> 20, inlier_ratio |-> SingleStep - 1, latency_ms |-> 35, flags |-> 1]}

\* Files of other origin: a foreign magic with a record, a newer version
\* with a record, an older version with a record, and files that end inside
\* the header.
ForeignFiles ==
    {Header_pack(<<66, 65, 65, 68>>, 2, RECORD_SIZE) \o [i \in 1..RECORD_SIZE |-> 0],
     Header_pack(HEADER_MAGIC, 3, RECORD_SIZE) \o [i \in 1..RECORD_SIZE |-> 0],
     Header_pack(<<66, 65, 65, 68>>, 3, RECORD_SIZE),
     Header_pack(HEADER_MAGIC, 1, RECORD_SIZE) \o [i \in 1..RECORD_SIZE |-> 0],
     <<66, 65, 65, 68, 2, 0>>,
     <<>>}

\* The components of the earlier sections are not constructed.
CoreIdle ==
    /\ FusionIdle
    /\ loop = NoLoop
    /\ rl = NoLimiter
    /\ uart = NoUart
    /\ cache = NoCache

InitRec ==
    /\ CoreIdle
    /\ rec = Recorder_new
    /\ msp = NoMsp
    /\ adapt = NoAdaptive
    /\ matcher = NoMatcher
    /\ maps = NoMaps
    /\ dash = NoDash

recRest == <<coreVars, msp, adapt, matcher, maps, dash>>

\* rec.start()
RecStart ==
    /\ rec' = Recorder_start(rec)
    /\ UNCHANGED recRest

\* rec.record(x)
RecRecord(x) ==
    /\ rec.calls < MaxRecords
    /\ rec' = [Recorder_record(rec, x) EXCEPT !.calls = rec.calls + 1]
    /\ UNCHANGED recRest

\* rec.stop()
RecStop ==
    /\ rec' = Recorder_stop(rec)
    /\ UNCHANGED recRest

\* Another file is put at the path while the recorder holds no file open.
RecForeign(f) ==
    /\ rec.file = None
    /\ rec' = [rec EXCEPT !.disk = f, !.op = "foreign"]
    /\ UNCHANGED recRest

NextRec ==
    \/ RecStart
    \/ \E x \in SampleRecords : RecRecord(x)
    \/ RecStop
    \/ \E f \in ForeignFiles : RecForeign(f)

SpecRec == InitRec /\ [][NextRec]_vars

(***************************************************************************)
(* Properties of FlightRecorder (checked under SpecRec).                   *)
(***************************************************************************)
\* A recording was made by start() on a recorder holding no file, records
\* and stop(), and nothing touched the file since.
RecordingClosed == rec.op = "stop" /\ ~rec.restarted

AsStored(x) ==
    [x EXCEPT !.vn_mps = SingleOf(x.vn_mps) * SingleStep,
              !.ve_mps = SingleOf(x.ve_mps) * SingleStep,
              !.hdop = SingleOf(x.hdop) * SingleStep,
              !.speed_mps = SingleOf(x.speed_mps) * SingleStep,
              !.heading_deg = SingleOf(x.heading_deg) * SingleStep,
              !.inlier_ratio = SingleOf(x.inlier_ratio) * SingleStep]

FileMagic(d) == SubSeq(d, 1, 4)
FileVersion(d) == d[5] + 256 * d[6]

\* The file's magic is not VPSF, or its version is newer than 2.
FileForeignOrNewer(d) ==
    \/ Len(d) >= 4 /\ FileMagic(d) # <<86, 80, 83, 70>>
    \/ Len(d) >= 6 /\ FileVersion(d) > 2

ReadRaisedValueError(d) ==
    Recorder_read(d).raised \in {"ValueError: Invalid file magic",
                                 "ValueError: Unsupported version"}

\* C22 (as stated): read raises an error for every file whose magic is not
\* VPSF and for every file whose version is newer than 2.
C22_ReadRejectsForeign ==
    FileForeignOrNewer(rec.disk) => ReadRaisedValueError(rec.disk)

\* C22 (amended): for a file with a whole 8-byte header, read raises
\* ValueError when the magic is not VPSF or the version is newer than 2; a
\* file shorter than the header is read as an empty recording without an
\* error, whatever its first bytes; in neither case are records returned.
C22_ReadRejectsWholeHeader ==
    /\ (Len(rec.disk) >= 8 /\ FileForeignOrNewer(rec.disk)) =>
          ReadRaisedValueError(rec.disk)
    /\ Len(rec.disk) < 8 => Recorder_read(rec.disk).raised = ""
    /\ FileForeignOrNewer(rec.disk) => Recorder_read(rec.disk).records = <<>>
    /\ (Len(rec.disk) >= 8 /\ ~FileForeignOrNewer(rec.disk)) =>
          ~ReadRaisedValueError(rec.disk)

\* A file of a newer version that holds a whole record is refused.
C22_Witness ==
    /\ rec.op = "foreign"
    /\ Len(rec.disk) = 8 + 56
    /\ FileMagic(rec.disk) = <<86, 80, 83, 70>>
    /\ FileVersion(rec.disk) = 3
    /\ Recorder_read(rec.disk).raised = "ValueError: Unsupported version"
    /\ Recorder_read(rec.disk).records = <<>>

(***************************************************************************)
(* encode_set_raw_gps applied to MSPGPSData values (onboard/msp.py).       *)
(***************************************************************************)
\* The MSPGPSData values encoded: both signs of the coordinates, altitudes
\* below zero and at both ends of an int16, and a speed that a uint16 cannot
\* hold.
MspInputs ==
    [fix_type : {0, 2}, num_sats : {10},
     lat : {0, 525200000, -338688000}, lon : {0, 1800000000, -706693000},
     alt : {0, 5000, -100, 32767, -32768, 32768}, speed : {0, 1000, 70000},
     ground_course : {0, 1800}, hdop : {100, 200}]

\* The arguments of MSPGPSData.from_position: altitudes at and beyond both
\* ends of an int16 of centimetres, and fractions of a centimetre.
MspPositions ==
    [fix_type : {2}, num_sats : {10}, lat : {123456789, -123456789}, lon : {-706693005},
     alt_mm : {0, 295, -1005, 327670, -327680, 327680, 400000, 655360, -400000},
     short : BOOLEAN, speed : {0, 15004}, heading : {-1000, 36500}, hdop : {1250}]

\* The object before from_position or the constructor has been called.
MspNoData ==
    [fix_type |-> 0, num_sats |-> 0, lat |-> 0, lon |-> 0, alt |-> 0, speed |-> 0,
     ground_course |-> 0, hdop |-> 0]

MspNoPosition ==
    [fix_type |-> 0, num_sats |-> 0, lat |-> 0, lon |-> 0, alt_mm |-> 0,
     short |-> FALSE, speed |-> 0, heading |-> 0, hdop |-> 0]

InitMsp ==
    /\ CoreIdle
    /\ rec = NoRecorder
    /\ msp \in {[op |-> "data", pos |-> MspNoPosition, gps |-> g,
                  ret |-> [raised |-> "", frame |-> <<>>]] : g \in MspInputs}
              \cup {[op |-> "position", pos |-> p, gps |-> MspNoData,
                     ret |-> [raised |-> "", frame |-> <<>>]] : p \in MspPositions}
    /\ adapt = NoAdaptive
    /\ matcher = NoMatcher
    /\ maps = NoMaps
    /\ dash = NoDash

\* gps = MSPGPSData.from_position(...)
MspFromPosition ==
    /\ msp.op = "position"
    /\ msp' = [msp EXCEPT !.op = "data", !.gps = MSP_from_position(msp.pos)]
    /\ UNCHANGED <<coreVars, rec, adapt, matcher, maps, dash>>

\* frame = encode_set_raw_gps(gps)
MspEncode ==
    /\ msp.op = "data"
    /\ msp' = [msp EXCEPT !.op = "encoded", !.ret = encode_set_raw_gps(msp.gps)]
    /\ UNCHANGED <<coreVars, rec, adapt, matcher, maps, dash>>

NextMsp ==
    \/ MspFromPosition
    \/ MspEncode

SpecMsp == InitMsp /\ [][NextMsp]_vars

(***************************************************************************)
(* Properties of the MSP frames (checked under SpecMsp).                   *)
(***************************************************************************)
\* Bit i of byte 24 of the frame is the parity of bit i over bytes 4..23.
MspParity(frame, i) ==
    Bit(frame[24], i) = Cardinality({j \in 4..23 : Bit(frame[j], i) = 1}) % 2

\* C23: a frame produced by encode_set_raw_gps has 24 bytes: $M<, the
\* length byte 18, the command byte 201, 18 payload bytes and a checksum
\* byte that is the XOR of the length byte, the command byte and the payload.
C23_FrameLayout ==
    (msp.op = "encoded" /\ msp.ret.raised = "") =>
       /\ Len(msp.ret.frame) = 24
       /\ SubSeq(msp.ret.frame, 1, 3) = <<36, 77, 60>>
       /\ msp.ret.frame[4] = 18
       /\ msp.ret.frame[5] = 201
       /\ \A j \in 1..24 : msp.ret.frame[j] \in 0..255
       /\ \A i \in 0..7 : MspParity(msp.ret.frame, i)

\* A frame for negative coordinates and a negative altitude.
C23_Witness ==
    /\ msp.op = "encoded" /\ msp.ret.raised = ""
    /\ msp.gps.lat < 0 /\ msp.gps.lon < 0 /\ msp.gps.alt < 0
    /\ Len(msp.ret.frame) = 24
    /\ SubSeq(msp.ret.frame, 8, 11) = <<0, 8, 208, 235>>
    /\ SubSeq(msp.ret.frame, 16, 17) = <<156, 255>>
    /\ msp.ret.frame[24] # 0

(***************************************************************************)
(* State machine of an AdaptiveController (onboard/adaptive.py):           *)
(* record_result and reset in any order.                                   *)
(***************************************************************************)
\* The controllers: the default bounds of min_matches with a window of one
\* result, and with a window of two and a target rate of 1.0 (where a rate
\* of 0.5 takes the middle branch of _adjust); bounds that do not hold the
\* default min_matches of 15.
AdaptiveConfigs ==
    {Adaptive_new(1, 500, 8, 25), Adaptive_new(2, 1000, 8, 25),
     Adaptive_new(1, 500, 20, 25), Adaptive_new(1, 500, 8, 10)}

\* The blur values passed: none (0.0), below and above the reject threshold.
AdaptiveBlurs == {0, 4000}

InitAdaptive ==
    /\ CoreIdle
    /\ rec = NoRecorder
    /\ msp = NoMsp
    /\ adapt \in AdaptiveConfigs
    /\ matcher = NoMatcher
    /\ maps = NoMaps
    /\ dash = NoDash

\* ctrl.record_result(success, inlier_ratio, blur)
AdaptRecordResult(success, blur) ==
    /\ adapt' = Adaptive_record_result(adapt, success, 60, blur)
    /\ UNCHANGED <<coreVars, rec, msp, matcher, maps, dash>>

\* ctrl.reset()
AdaptReset ==
    /\ adapt' = Adaptive_reset(adapt)
    /\ UNCHANGED <<coreVars, rec, msp, matcher, maps, dash>>

NextAdaptive ==
    \/ \E success \in BOOLEAN, blur \in AdaptiveBlurs : AdaptRecordResult(success, blur)
    \/ AdaptReset

SpecAdaptive == InitAdaptive /\ [][NextAdaptive]_vars

(***************************************************************************)
(* Properties of AdaptiveController (checked under SpecAdaptive).          *)
(***************************************************************************)
\* C24: after any record_result and reset calls min_min_matches <=
\* min_matches <= max_min_matches, 0.15 <= min_inlier_ratio <= 0.50,
\* 0.65 <= match_ratio_threshold <= 0.85 and 300 <= max_features <= 1000.
C24_ParamsWithinBounds ==
    adapt.op \in {"record_result", "reset"} =>
       /\ adapt.min_min_matches <= adapt.params.min_matches
       /\ adapt.params.min_matches <= adapt.max_min_matches
       /\ 15 <= adapt.params.min_inlier_ratio /\ adapt.params.min_inlier_ratio <= 50
       /\ 65 <= adapt.params.match_ratio_threshold
       /\ adapt.params.match_ratio_threshold <= 85
       /\ 300 <= adapt.params.max_features /\ adapt.params.max_features <= 1000

(***************************************************************************)
(* PositionFusion.reset against a new instance (checked under Spec).       *)
(***************************************************************************)
\* The next update on the instance as it is, and on a new instance with the
\* same geofence.
UpdateHere(f, dt) ==
    PositionFusion_update(ekf, dr, fenceCfg, fence, f.visual, f.hdop, clock + dt)

UpdateNew(f, dt) ==
    PositionFusion_update(EKF_new, None, fenceCfg, Fence_new, f.visual, f.hdop, clock + dt)

\* The filter fields set by __init__ and reset (all but _last_innovation_gate,
\* which update writes before anything reads it).
Filter(e) == [e EXCEPT !.gate = 0]

\* C25: after reset() the filter is uninitialized, there is no
\* dead-reckoning reference, the geofence counters are zero, and the next
\* update returns what a new instance with the same configuration returns
\* and leaves the same state; without a visual position it returns no fix.
C25_ResetLikeNew ==
    call.op = "reset" =>
       /\ ~ekf.initialized
       /\ Filter(ekf) = EKF_new
       /\ dr = None
       /\ fenceCfg # None => fence = Fence_new
       /\ \A f \in Frames, dt \in Dts :
             /\ UpdateHere(f, dt).out = UpdateNew(f, dt).out
             /\ Filter(UpdateHere(f, dt).ekf) = Filter(UpdateNew(f, dt).ekf)
             /\ UpdateHere(f, dt).dr = UpdateNew(f, dt).dr
             /\ UpdateHere(f, dt).fence = UpdateNew(f, dt).fence
             /\ f.visual = None =>
                   /\ UpdateHere(f, dt).out.position = None
                   /\ UpdateHere(f, dt).out.fix_quality = 0

\* A reset of an instance with an initialized filter, a reference and
\* geofence violations counted.
C25_Witness ==
    /\ call.op = "reset"
    /\ call.pre.initialized /\ call.pre_dr # None
    /\ fenceCfg # None /\ call.pre_fence.consecutive_violations > 0
    /\ ~ekf.initialized /\ dr = None /\ fence = Fence_new
    /\ \E f \in Frames : f.visual = None /\ UpdateHere(f, 1).out.position = None

(***************************************************************************)
(* PositionEKF.predict as a read (checked under SpecEKF).                  *)
(***************************************************************************)
\* C26: predict(t) leaves the state vector, the covariance, the timestamp
\* and the initialized flag as they were, and returns GeoPoint(0, 0) on an
\* uninitialized filter.
C26_PredictReadOnly ==
    call.op = "ekf_predict" =>
       /\ ekf = call.pre
       /\ ~call.pre.initialized => call.ret = Some(GeoPoint(0, 0))

\* A prediction ahead of a moving filter: the position returned is not the
\* filter's, and the filter still holds its own.
C26_Witness ==
    /\ call.op = "ekf_predict"
    /\ call.pre.initialized
    /\ call.t > call.pre.last_t
    /\ call.ret # Some(EKF_position(call.pre))
    /\ EKF_position(ekf) = EKF_position(call.pre)
    /\ ekf.last_t = call.pre.last_t

(***************************************************************************)
(* State machine of _try_match_frame (onboard/main.py): one frame, the     *)
(* loop over its retrieved candidates one iteration at a time.             *)
(***************************************************************************)
\* The number of candidates retrieved for the frame.
MaxCandidates == 3

\* What the loop can find for a candidate: an unreadable tile image, too few
\* matches, no homography, too few inliers, and fixes at the thresholds and
\* above them.
CandidateKinds ==
    {[loads |-> FALSE, num_matches |-> 40, homography |-> TRUE, inlier_ratio |-> 90,
      position |-> GeoPoint(9, 9)],
     [loads |-> TRUE, num_matches |-> 14, homography |-> TRUE, inlier_ratio |-> 90,
      position |-> GeoPoint(8, 8)],
     [loads |-> TRUE, num_matches |-> 20, homography |-> FALSE, inlier_ratio |-> 0,
      position |-> GeoPoint(7, 7)],
     [loads |-> TRUE, num_matches |-> 20, homography |-> TRUE, inlier_ratio |-> 29,
      position |-> GeoPoint(6, 6)],
     [loads |-> TRUE, num_matches |-> 15, homography |-> TRUE, inlier_ratio |-> 30,
      position |-> GeoPoint(1, 0)],
     [loads |-> TRUE, num_matches |-> 40, homography |-> TRUE, inlier_ratio |-> 95,
      position |-> GeoPoint(2, 1)]}

\* The candidate lists: entry i is tile i with what the loop finds for it.
CandidateLists ==
    UNION {[1..n -> CandidateKinds] : n \in 0..MaxCandidates}

Entries(kinds) ==
    [i \in 1..Len(kinds) |->
       [loads |-> kinds[i].loads, num_matches |-> kinds[i].num_matches,
        homography |-> kinds[i].homography, inlier_ratio |-> kinds[i].inlier_ratio,
        position |-> kinds[i].position, tile |-> i]]

InitMatch ==
    /\ CoreIdle
    /\ rec = NoRecorder
    /\ msp = NoMsp
    /\ adapt = NoAdaptive
    /\ matcher \in {Match_started(Entries(k)) : k \in CandidateLists}
    /\ maps = NoMaps
    /\ dash = NoDash

\* for entry in candidates.entries: one iteration.
MatchExamine ==
    /\ matcher.pc = "loop"
    /\ matcher.i <= Len(matcher.candidates)
    /\ matcher' = Match_examine(matcher, matcher.candidates[matcher.i])
    /\ UNCHANGED <<coreVars, rec, msp, adapt, maps, dash>>

\* The loop ends without a return.
MatchExhausted ==
    /\ matcher.pc = "loop"
    /\ matcher.i > Len(matcher.candidates)
    /\ matcher' = Match_exhausted(matcher)
    /\ UNCHANGED <<coreVars, rec, msp, adapt, maps, dash>>

NextMatch ==
    \/ MatchExamine
    \/ MatchExhausted

SpecMatch == InitMatch /\ [][NextMatch]_vars

(***************************************************************************)
(* Properties of _try_match_frame (checked under SpecMatch).               *)
(***************************************************************************)
\* The candidate's tile image loads, its match count is at least
\* min_matches (15) and its homography passes the threshold (0.3).
Qualifies(c) ==
    c.loads /\ c.num_matches >= 15 /\ c.homography /\ c.inlier_ratio >= 30

\* The qualifying candidates of the frame, by their place in retrieval order.
Qualifying == {i \in 1..Len(matcher.candidates) : Qualifies(matcher.candidates[i])}

FirstQualifying == CHOOSE i \in Qualifying : \A j \in Qualifying : i <= j

\* C27: the candidates are examined in retrieval order; the result is the
\* position of the first qualifying candidate, no later candidate is
\* examined, every earlier one was examined and skipped, and a frame
\* without a qualifying candidate is a miss after all were examined.
C27_FirstQualifyingCandidate ==
    /\ matcher.examined = [i \in 1..Len(matcher.examined) |-> i]
    /\ matcher.pc = "returned" =>
          IF Qualifying = {}
          THEN /\ matcher.ret.position = None
               /\ Len(matcher.examined) = Len(matcher.candidates)
          ELSE /\ matcher.ret.position = Some(matcher.candidates[FirstQualifying].position)
               /\ matcher.ret.tile = FirstQualifying
               /\ Len(matcher.examined) = FirstQualifying

\* The second candidate is returned after an unreadable first one, and a
\* third that qualifies as well is never examined.
C27_Witness ==
    /\ matcher.pc = "returned"
    /\ Len(matcher.candidates) = 3
    /\ ~matcher.candidates[1].loads
    /\ Qualifies(matcher.candidates[2]) /\ Qualifies(matcher.candidates[3])
    /\ matcher.candidates[2].position # matcher.candidates[3].position
    /\ matcher.ret.position = Some(matcher.candidates[2].position)
    /\ matcher.examined = <<1, 2>>

(***************************************************************************)
(* State machine of a RateLimiter whose caller waits time_until_next       *)
(* (onboard/rate_limiter.py): calls at the input rate, and calls made      *)
(* time_until_next(t) after a time t.                                      *)
(***************************************************************************)
MaxWaitCalls == 5

InitWait ==
    /\ FusionIdle
    /\ loop = NoLoop
    /\ rl \in {RL_new(c.max_hz, c.burst, c.per_token, run.short, run.start) :
                 c \in RateConfigs, run \in RateRuns}
    /\ uart = NoUart
    /\ cache = NoCache
    /\ AuxIdle

waitRest ==
    <<ekf, dr, fenceCfg, fence, out, session, clock, calls, loopVars, uartVars, cacheVars,
      auxVars>>

\* limiter.allow(t) at the next timestamp of the input.
WaitTick ==
    /\ rl.stats.total_requests < MaxWaitCalls
    /\ rl' = [RL_allow(rl, rl.next_t) EXCEPT !.next_t = @ + 1]
    /\ call' = [NoCall EXCEPT !.op = "allow", !.t = rl.next_t]
    /\ UNCHANGED waitRest

\* w = limiter.time_until_next(t); limiter.allow(t + w), with t the time
\* of the last call (sooner = TRUE) or of the next timestamp of the input.
WaitThenAllow(sooner) ==
    LET t == IF sooner THEN rl.next_t - 1 ELSE rl.next_t
    IN  /\ rl.stats.total_requests < MaxWaitCalls
        /\ sooner => rl.stats.total_requests > 0
        /\ rl' = [RL_allow(rl, t + RL_time_until_next(rl))
                    EXCEPT !.next_t = t + RL_time_until_next(rl) + 1]
        /\ call' = [NoCall EXCEPT !.op = "time_until_next", !.t = t,
                                  !.ret = Some([w |-> RL_time_until_next(rl),
                                                tokens |-> rl.tokens,
                                                per_token |-> rl.per_token])]
        /\ UNCHANGED waitRest

NextWait ==
    \/ WaitTick
    \/ \E sooner \in BOOLEAN : WaitThenAllow(sooner)

SpecWait == InitWait /\ [][NextWait]_vars

(***************************************************************************)
(* Properties of RateLimiter.time_until_next (checked under SpecWait).     *)
(***************************************************************************)
\* C28: when time_until_next(t) returned w, the allow(t + w) that follows
\* is admitted (stated for limiters with burst >= 1, which can admit at all).
C28_WaitIsEnough ==
    (call.op = "time_until_next" /\ rl.burst >= 1) => rl.ret

(***************************************************************************)
(* State machine of a MapLoader (onboard/map_loader.py): load() called     *)
(* again and again on one pack.                                            *)
(***************************************************************************)
MaxLoads == 2
MaxTileList == 3

\* Entries of a tile list: two entries for tile (17, 0, 0), one more tile
\* at zoom 17 and one at zoom 19.
TileListEntries ==
    {[z |-> 17, x |-> 0, y |-> 0, path |-> "tiles/17/0/0.png"],
     [z |-> 17, x |-> 0, y |-> 0, path |-> "tiles/17/0/0b.png"],
     [z |-> 17, x |-> 1, y |-> 0, path |-> "tiles/17/1/0.png"],
     [z |-> 19, x |-> 0, y |-> 0, path |-> "tiles/19/0/0.png"]}

Packs ==
    {[kind |-> k, entries |-> <<>>] : k \in {"no_dir", "no_tile_list", "invalid_json"}}
    \cup {[kind |-> "tile_list", entries |-> l] :
             l \in UNION {[1..n -> TileListEntries] : n \in 0..MaxTileList}}

InitMaps ==
    /\ CoreIdle
    /\ rec = NoRecorder
    /\ msp = NoMsp
    /\ adapt = NoAdaptive
    /\ matcher = NoMatcher
    /\ maps \in {MapLoader_new(p) : p \in Packs}
    /\ dash = NoDash

\* loader.load()
MapLoad ==
    /\ maps.loads < MaxLoads
    /\ maps' = [MapLoader_load(maps) EXCEPT !.loads = maps.loads + 1]
    /\ UNCHANGED <<coreVars, rec, msp, adapt, matcher, dash>>

NextMaps == MapLoad

SpecMaps == InitMaps /\ [][NextMaps]_vars

(***************************************************************************)
(* Properties of MapLoader (checked under SpecMaps).                       *)
(***************************************************************************)
\* No coordinate is twice in the list.
NoCoordTwice(tiles) ==
    \A i, j \in 1..Len(tiles) : TileKey(tiles[i]) = TileKey(tiles[j]) => i = j

\* The number of entries over all zoom levels.
EntriesOverZooms ==
    Len(MapLoader_get_tiles_at_zoom(maps, 17)) + Len(MapLoader_get_tiles_at_zoom(maps, 19))

\* C30: after load(), get_tiles_at_zoom(z) holds no coordinate twice and
\* tile_count is the number of entries over all zoom levels, for any tile
\* list and any number of load() calls.
C30_TileOncePerZoom ==
    maps.loaded =>
       /\ \A z \in Zooms : NoCoordTwice(MapLoader_get_tiles_at_zoom(maps, z))
       /\ MapLoader_tile_count(maps) = EntriesOverZooms

(***************************************************************************)
(* The dead-reckoning reference of PositionFusion (checked under Spec).    *)
(***************************************************************************)
\* C29: a dead-reckoning reference exists only if a visual fix has been
\* processed since construction or the last reset, and no update returns,
\* or offers to the geofence, a dead-reckoning position before the first
\* visual fix of the session.
C29_ReferenceNeedsVisualFix ==
    /\ dr # None => session.visual_seen
    /\ (call.op = "update" /\ ~session.visual_seen) =>
          /\ call.pre_dr = None
          /\ call.candidate.source # "dead_reckoning"
          /\ out.source # "dead_reckoning"

\* C29 witness: after a visual fix of the session, an update without one
\* returns a dead-reckoning position from the reference.
C29_Witness ==
    /\ call.op = "update"
    /\ call.visual = None
    /\ session.visual_seen
    /\ call.pre_dr # None
    /\ out.source = "dead_reckoning"
    /\ out.position # None

(***************************************************************************)
(* The shutdown flag and the tail sleep (checked under SpecLoop).          *)
(***************************************************************************)
\* The shutdown signal arrived during the tail sleep of the tick that has
\* just ended.
SignalDuringTailSleep ==
    /\ loop.signal_pc = "sleeping"
    /\ loop.signal_frame = loop.frame_num
    /\ loop.step = "tick_done"

\* C31: a flag set while the loop sleeps out the rest of the period ends the
\* sleep without waiting for the period to elapse: the loop has then slept
\* less than the remainder it asked for.
C31_SignalEndsTailSleep ==
    SignalDuringTailSleep => loop.slept_ms < loop.remaining_ms

(***************************************************************************)
(* The slight relaxation of _adjust (checked under SpecAdaptive).          *)
(***************************************************************************)
\* The recent fix rate of a is below the target but not below half of it.
BelowTargetNotHalf(a) == ~Adaptive_rate_below(a, 1) /\ Adaptive_rate_below(a, 2)

\* C32: a record_result that finds the recent fix rate below the target but
\* not below half of it raises neither min_matches nor min_inlier_ratio.
C32_SlightRelaxNeverRaises ==
    [][(adapt'.op = "record_result" /\ BelowTargetNotHalf(adapt')) =>
          /\ adapt'.params.min_matches <= adapt.params.min_matches
          /\ adapt'.params.min_inlier_ratio <= adapt.params.min_inlier_ratio]_vars

(***************************************************************************)
(* Failures of the port inside UARTManager (checked under SpecUart).       *)
(***************************************************************************)
\* C33: no exception leaves open, close or send, whatever fails at the port:
\* a send is in progress or has returned; a send whose last open or write
\* failed returns false, and a send that returns false leaves the manager
\* marked disconnected, so that the next send begins by reconnecting.
C33_SendNeverRaises ==
    /\ [](uart.raised = "" /\ uart.pc \in {"idle", "attempt"})
    /\ [][(/\ uart.pc = "attempt" /\ uart'.pc = "idle"
            /\ uart'.log[Len(uart'.log)] \in {"open_failed", "write_failed"}) =>
             ~uart'.ret]_vars
    /\ [][(uart.pc = "attempt" /\ uart'.pc = "idle" /\ ~uart'.ret) =>
             UART_needs_reconnect(uart')]_vars

\* C33 witness: open, write, flush and close have each failed, the first send
\* returned false, and the second send reconnected and succeeded.
C33_Witness ==
    /\ uart.pc = "idle" /\ uart.sends = 2 /\ uart.ret
    /\ uart.faults = {"open", "write", "flush", "close"}
    /\ uart.stats.messages_sent = 1
    /\ uart.log = <<"close", "reconnect", "open_ok", "write_ok">>

(***************************************************************************)
(* The altitude field of the MSP frame (checked under SpecMsp).            *)
(***************************************************************************)
\* The altitude field of the frame, bytes 16 and 17, as a uint16 and as the
\* int16 the flight controller reads.
WireAlt == LEValue(SubSeq(msp.ret.frame, 16, 17))
WireAltSigned == IF WireAlt >= 32768 THEN WireAlt - 65536 ELSE WireAlt

\* C34: the altitude field carries alt_cm modulo 2^16; an alt_cm between
\* -32768 and 32767 is read back as it was; an alt_cm above 32767 is not
\* rejected and not clamped: it is read back as another altitude.  A frame
\* is refused only for a field other than the altitude.
C34_AltitudeWraps ==
    msp.op = "encoded" =>
       /\ msp.ret.raised # "" =>
             \/ msp.gps.speed \notin 0..65535
             \/ msp.gps.ground_course \notin 0..65535
             \/ msp.gps.hdop \notin 0..65535
       /\ msp.ret.raised = "" =>
             /\ WireAlt = msp.gps.alt % 65536
             /\ msp.gps.alt \in -32768..32767 => WireAltSigned = msp.gps.alt
             /\ msp.gps.alt > 32767 =>
                   /\ WireAltSigned # msp.gps.alt
                   /\ (msp.gps.alt < 65536 => WireAlt = msp.gps.alt)
                   /\ (msp.gps.alt < 65536 => WireAltSigned = msp.gps.alt - 65536)

\* C34 witness: from_position at 400 m gives 40000 cm, which goes out as
\* 0x9C40 and is read back as -25536 cm.
C34_Witness ==
    /\ msp.op = "encoded" /\ msp.ret.raised = ""
    /\ msp.pos.alt_mm = 400000
    /\ msp.gps.alt = 40000
    /\ SubSeq(msp.ret.frame, 16, 17) = <<64, 156>>
    /\ WireAltSigned = -25536

(***************************************************************************)
(* State machine of a StatusDashboard (onboard/status.py): update,         *)
(* record_frame and set_position_info in any order, and one snapshot that  *)
(* the caller keeps.                                                       *)
(***************************************************************************)
MaxDashOps == 4

DashNames == {"camera", "uart"}
DashMessages == {"", "disconnected"}
DashSources == {"visual", "dead_reckoning"}

InitDash ==
    /\ CoreIdle
    /\ rec = NoRecorder
    /\ msp = NoMsp
    /\ adapt = NoAdaptive
    /\ matcher = NoMatcher
    /\ maps = NoMaps
    /\ dash = Dash_new(1)

dashRest == <<coreVars, rec, msp, adapt, matcher, maps>>

\* The call has returned at time t: one more operation, the clock moves on.
DashDone(d, op) == [d EXCEPT !.op = op, !.t = @ + 1, !.ops = @ + 1]

\* dash.update(name, ok, message)
DashUpdate(name, ok, message) ==
    /\ dash.ops < MaxDashOps
    /\ dash' = DashDone(Dash_update(dash, name, ok, message, dash.t + 1), "update")
    /\ UNCHANGED dashRest

\* dash.record_frame()
DashRecordFrame ==
    /\ dash.ops < MaxDashOps
    /\ dash' = DashDone(Dash_record_frame(dash, dash.t + 1), "record_frame")
    /\ UNCHANGED dashRest

\* dash.set_position_info(source, fix_rate)
DashSetPositionInfo(source, fix_rate) ==
    /\ dash.ops < MaxDashOps
    /\ dash' = DashDone(Dash_set_position_info(dash, source, fix_rate),
                        "set_position_info")
    /\ UNCHANGED dashRest

\* snap = dash.snapshot(), read at once.
DashSnapshot ==
    /\ dash.ops < MaxDashOps
    /\ dash.snap = None
    /\ dash' = DashDone([dash EXCEPT
                           !.snap = Some(Dash_snapshot(dash, dash.t + 1)),
                           !.seen = Some(Dash_read(Dash_snapshot(dash, dash.t + 1),
                                                   dash.heap))],
                        "snapshot")
    /\ UNCHANGED dashRest

NextDash ==
    \/ \E name \in DashNames, ok \in BOOLEAN, message \in DashMessages :
          DashUpdate(name, ok, message)
    \/ DashRecordFrame
    \/ \E source \in DashSources : DashSetPositionInfo(source, 90)
    \/ DashSnapshot

SpecDash == InitDash /\ [][NextDash]_vars

(***************************************************************************)
(* Properties of StatusDashboard (checked under SpecDash).                 *)
(***************************************************************************)
\* C35: what is read through a snapshot stays what it was when the snapshot
\* was taken, whatever is called on the dashboard afterwards: its fields and
\* the ok flag and message of each subsystem.
C35_SnapshotIsValueCopy ==
    dash.snap # None => Dash_read(Get(dash.snap), dash.heap) = Get(dash.seen)

(***************************************************************************)
(* Timestamps that do not advance (checked under SpecEKF).                 *)
(***************************************************************************)
\* The last call was an update of an initialized filter with a timestamp not
\* later than the filter's.
StaleUpdate ==
    /\ call.op = "ekf_update"
    /\ call.pre.initialized
    /\ call.t <= call.pre.last_t

\* The time step of 1 ms.
OneMillisecond == [n |-> 1, d |-> 1000]

\* C36: an update whose timestamp is not later than the filter's is a normal
\* gated update over a time step of 1 ms, accepted or rejected by the gate,
\* and leaves the supplied time as the filter's timestamp.
C36_StaleTimestampClamped ==
    StaleUpdate =>
       /\ call.branch \in {"corrected", "rejected"}
       /\ call.accepted = (call.branch = "corrected")
       /\ ekf = EKF_gate(call.pre, Get(call.visual), call.hdop, call.t,
                         EKF_x_pred(call.pre, OneMillisecond),
                         EKF_P_pred(call.pre, OneMillisecond)).ekf
       /\ ekf.last_t = call.t
       /\ ekf.initialized

\* C36 witness: a measurement stamped before the filter's time moves a filter
\* with velocity, and the filter's time goes back.
C36_Witness ==
    /\ StaleUpdate
    /\ call.t < call.pre.last_t
    /\ call.pre.vlat # 0
    /\ call.branch = "corrected"
    /\ ekf.lat # call.pre.lat
    /\ ekf.last_t < call.pre.last_t

(***************************************************************************)
(* What a geofence violation leaves behind (checked under Spec).           *)
(***************************************************************************)
\* The last call was an update that the geofence refused.
ViolationTick == call.op = "update" /\ ~out.geofence_ok

\* The same call on the same state, had there been no geofence.
CallUnfenced ==
    PositionFusion_update(call.pre, call.pre_dr, None, call.pre_fence,
                          call.visual, call.hdop, call.t)

\* C37: a geofence violation clears the position, quality and source of the
\* output and nothing of the filter or the dead-reckoning reference: both are
\* what the call leaves without a geofence.  After a violation on a visual
\* fix the filter and the reference hold the refused position, stamped with
\* the time of the call.
C37_ViolationKeepsState ==
    ViolationTick =>
       /\ out.position = None /\ out.fix_quality = 0 /\ out.source = "none"
       /\ ekf = CallUnfenced.ekf
       /\ dr = CallUnfenced.dr
       /\ CallUnfenced.out.position = call.candidate.pos
       /\ call.visual # None =>
             /\ ekf.initialized /\ ekf.last_t = call.t
             /\ call.candidate.pos = Some(EKF_position(ekf))
             /\ ~CircleGeofence_contains(Get(fenceCfg), EKF_position(ekf))
             /\ dr # None
             /\ Get(dr).last_fix = EKF_position(ekf)
             /\ Get(dr).last_fix_time = call.t

\* C37 witness: a tick without a visual fix predicts from the position a
\* violation left in the filter and in the reference, and is refused too.
C37_Witness ==
    /\ ViolationTick
    /\ call.visual = None
    /\ call.candidate.source = "ekf_predict"
    /\ call.pre.initialized
    /\ ~CircleGeofence_contains(Get(fenceCfg), EKF_position(call.pre))
    /\ call.pre_dr # None
    /\ Get(call.pre_dr).last_fix = EKF_position(call.pre)
    /\ call.candidate.pos = Some(EKF_predict(call.pre, call.t))

(***************************************************************************)
(* State machine of a RateLimiter called at irregular times                *)
(* (onboard/rate_limiter.py): each allow(t) comes a gap after the call     *)
(* before it, the gap counted in the spacings of the input rate.           *)
(***************************************************************************)
MaxGapCalls == 4

\* No time at all, one spacing, half a token period or more, and more than
\* any burst takes to refill.
RateGaps == {0, 1, 5, 40}

InitGaps ==
    /\ FusionIdle
    /\ loop = NoLoop
    /\ rl \in {RL_new(c.max_hz, c.burst, c.per_token, run.short, run.start) :
                 c \in RateConfigs, run \in RateRuns}
    /\ uart = NoUart
    /\ cache = NoCache
    /\ AuxIdle

\* limiter.allow(t), gap after the last timestamp.
GapAllow(gap) ==
    /\ rl.stats.total_requests < MaxGapCalls
    /\ rl' = [RL_allow(rl, rl.next_t + gap) EXCEPT !.next_t = rl.next_t + gap]
    /\ UNCHANGED <<fusionVars, loopVars, uartVars, cacheVars, auxVars>>

NextGaps == \E gap \in RateGaps : GapAllow(gap)

SpecGaps == InitGaps /\ [][NextGaps]_vars

(***************************************************************************)
(* Token accounting of RateLimiter.allow (checked under SpecGaps).         *)
(***************************************************************************)
\* C38: with timestamps that never go back the tokens stay within 0 and
\* burst, and total_requests = accepted + throttled; an admitted call leaves
\* the replenished tokens less one and counts as accepted, a throttled call
\* leaves the replenished tokens as they are and counts as throttled.
C38_TokenAccounting ==
    /\ [](/\ 0 <= rl.tokens /\ rl.tokens <= rl.burst * rl.per_token
          /\ rl.stats.total_requests = rl.stats.accepted + rl.stats.throttled)
    /\ [][rl'.ret =>
            /\ rl'.tokens = RL_replenish(rl, rl'.last_t) - rl.per_token
            /\ rl'.stats.accepted = rl.stats.accepted + 1
            /\ rl'.stats.throttled = rl.stats.throttled]_vars
    /\ [][~rl'.ret =>
            /\ rl'.tokens = RL_replenish(rl, rl'.last_t)
            /\ rl'.stats.accepted = rl.stats.accepted
            /\ rl'.stats.throttled = rl.stats.throttled + 1]_vars

\* C38 witness: a limiter with a burst of two, refilled to the cap by a long
\* gap after admissions and a throttled call, admits a call and is left with
\* exactly one token.
C38_Witness ==
    /\ rl.burst = 2
    /\ rl.stats.accepted >= 3 /\ rl.stats.throttled >= 1
    /\ rl.ret
    /\ rl.tokens = rl.per_token /\ rl.exact

(***************************************************************************)
(* The fix of every tick of the frame loop (checked under SpecLoop).       *)
(***************************************************************************)
\* The tick has grabbed a frame and its send_fix call has returned.
FixOfTickSent ==
    /\ loop.uart = "open"
    /\ loop.step \in {"sent", "logged", "sleeping", "tick_done"}

====
